---- MODULE Spec2Model ----
(***************************************************************************)
(* A model of DiscordBulkJobService (src/discord_bulk_service.py): the job *)
(* store active_jobs, the job records (the job_data dictionaries, which a  *)
(* worker keeps a reference to even after the store has been cleared), the *)
(* shutdown event, the set of tracked threads, one worker thread per job   *)
(* stepping through _process_wizard_job / _process_image_set, and the      *)
(* callers of cancel_job and _cleanup_on_exit.                             *)
(*                                                                         *)
(* Every `with self.job_lock:` block is one atomic action: the lock makes  *)
(* the blocks mutually exclusive, and nothing else happens inside them.    *)
(* Everything between two such blocks (a read of the shutdown event, a     *)
(* network call, a sleep slice) is an action of its own, so that the other *)
(* threads can run in between.                                             *)
(*                                                                         *)
(* Timestamps are modelled by their presence only: next_post_time and      *)
(* last_post_time are "None" or "set".                                     *)
(***************************************************************************)
EXTENDS Integers, Sequences, FiniteSets

\* ---------------------------------------------------------------- bounds
MaxJobs == 1
MaxVideos == 2
MaxInterval == 1
MaxCleanups == 2

\* ------------------------------------------------------ program constants
chunk_size == 10
SecondsPerMinute == 60

JobIds == 1..MaxJobs

Terminal == {"completed", "cancelled", "error"}

VARIABLES
    active_jobs,      \* self.active_jobs: the ids the store holds
    job_data,         \* the job_data dictionaries, by job id
    shutdown_event,   \* self._shutdown_event
    active_threads,   \* self._active_threads (a thread is named by its job)
    pc,               \* where each job's worker thread is
    set_no,           \* image_set_number of the running _process_image_set
    video_index,      \* video_index of the running loop iteration
    wait_elapsed,     \* wait_elapsed of the running interval wait
    success,          \* the value _post_to_n8n_webhook returned for the item
    cleanup_pc,       \* where the caller of _cleanup_on_exit is
    cleanup_calls,    \* how many times _cleanup_on_exit has been called
    bot_token,        \* self.bot_token: whether DISCORD_BOT_TOKEN was set
    ret,              \* what the last call of create_wizard_bulk_job or
                      \* cancel_job returned
    \* history variables (observations of the run, never read by the code)
    attempted,        \* items of the job that got past the loop-top checks
    cancel_mark,      \* items in progress at the last successful cancel_job
    pending_cancel,   \* a cancel_job succeeded before the worker had run
    wait_cancel,      \* a cancel_job succeeded during the interval wait
    slices_cancel,    \* sleep slices started since that cancel (capped)
    shutdown_mark,    \* items in progress when the shutdown event was set
    slices_shutdown,  \* sleep slices started since the event was set (capped)
    item_failures     \* extractions that raised and dispatches that returned
                      \* False, counted as they happen

\* One call of _extract_attachments or of _post_to_n8n_webhook, on its own
VARIABLES
    io_fn,            \* which of the two is called ("idle": neither)
    io_pc,            \* "call" before the call, "returned" after it
    message_link,     \* the argument message_link, as a sequence of characters
    link_src,         \* observation: how message_link was written
    resp,             \* what the HTTP request of the call will answer
    io_ret            \* what the call returned or raised

io_vars == <<io_fn, io_pc, message_link, link_src, resp, io_ret>>
\* The payloads _process_image_set builds for one wizard job, on their own
VARIABLES
    wizard_job,       \* the inputs of the job, as create_wizard_bulk_job stored them
    image_set_number, \* the image set being processed (0: none)
    item_index,       \* video_index of the loop of that image set
    n8n_payload       \* the payload built last, with the item it was built for

payload_vars == <<wizard_job, image_set_number, item_index, n8n_payload>>
\* The long-form job lease of app.py, on its own
VARIABLES
    LONGFORM_JOB_STATE, \* the dictionary of app.py line 44
    now,                \* what datetime.utcnow() returns
    lease_pc,           \* where each request thread is
    lease_req,          \* the seconds field of the request a thread serves
    lease_ret,          \* the response a thread is building or has sent
    grants              \* history: the leases granted, as <<from, until>>

lease_vars == <<LONGFORM_JOB_STATE, now, lease_pc, lease_req, lease_ret, grants>>
\* The quota bookkeeping of one client (auth_manager.py, youtube_service.py),
\* on its own
VARIABLES
    quota_file,  \* what quota_<client_id>.json holds
    quota_pc,    \* where each request thread is in its YouTubeServiceV2 call
    quota_op,    \* the API operation the thread's call is charged as
    quota_data,  \* the thread's local quota_data of update_quota
    quota_ret,   \* what the thread's call returned last
    quota_calls  \* the calls made so far

quota_vars == <<quota_file, quota_pc, quota_op, quota_data, quota_ret, quota_calls>>
\* One job at the grain of job_lock: who owns the lock, and what each thread
\* does inside and outside its critical sections
VARIABLES
    job_lock,    \* the thread that owns self.job_lock, or "none"
    lk_stored,   \* the job's id is in self.active_jobs
    lk_job,      \* the job_data dictionary of the job
    lk_event,    \* self._shutdown_event is set
    lk_tracked,  \* the worker thread is in self._active_threads
    lk_worker,   \* the worker thread: its place and its locals
    lk_request,  \* the request thread: the service call it is in, or "idle"
    lk_main,     \* the main thread: its phase and its stack of
                 \* _cleanup_on_exit calls, innermost last
    lk_unlocked  \* history: the accesses to the job's mutable fields made
                 \* by a thread that did not own job_lock

lock_vars == <<job_lock, lk_stored, lk_job, lk_event, lk_tracked, lk_worker,
               lk_request, lk_main, lk_unlocked>>
side_vars == <<io_vars, payload_vars, lease_vars, quota_vars, lock_vars>>

worker_vars == <<pc, set_no, video_index, wait_elapsed, success>>
hist_vars == <<attempted, cancel_mark, pending_cancel, wait_cancel,
               slices_cancel, shutdown_mark, slices_shutdown>>
api_vars == <<bot_token, ret>>
vars == <<active_jobs, job_data, shutdown_event, active_threads, pc, set_no,
          video_index, wait_elapsed, success, cleanup_pc, cleanup_calls,
          bot_token, ret,
          attempted, cancel_mark, pending_cancel, wait_cancel, slices_cancel,
          shutdown_mark, slices_shutdown, item_failures, side_vars>>
job_vars == <<active_jobs, job_data, shutdown_event, active_threads, pc,
              set_no, video_index, wait_elapsed, success, cleanup_pc,
              cleanup_calls, bot_token, ret, attempted, cancel_mark,
              pending_cancel, wait_cancel, slices_cancel, shutdown_mark,
              slices_shutdown, item_failures>>

\* What the actions of each separate specification leave alone.
io_frame == <<job_vars, payload_vars, lease_vars, quota_vars, lock_vars>>
payload_frame == <<job_vars, io_vars, lease_vars, quota_vars, lock_vars>>
lease_frame == <<job_vars, io_vars, payload_vars, quota_vars, lock_vars>>
quota_frame == <<job_vars, io_vars, payload_vars, lease_vars, lock_vars>>
lock_frame == <<job_vars, io_vars, payload_vars, lease_vars, quota_vars>>

\* A mark is the empty set until it is taken, then {n}.
NoMark == {}
SliceCap == 2

\* The job_data of a job id that create_wizard_bulk_job has not produced yet.
NoJob ==
    [num_videos |-> 0, num_videos_is_int |-> TRUE,
     use_second_image_set |-> FALSE, second_len |-> 0,
     interval_minutes |-> 0, total_items |-> 0, completed |-> 0, failed |-> 0,
     status |-> "none", next_post_time |-> "None", last_post_time |-> "None",
     errors |-> <<>>]

Created(j) == pc[j] # "none"

\* A returned tuple. job_id 0 stands for the empty string; args_ok is an
\* observation: whether the caller passed every required input.
Returned(op, job_id, ok, message, args_ok) ==
    [op |-> op, job_id |-> job_id, ok |-> ok, message |-> message,
     args_ok |-> args_ok]

NoRet == [op |-> "none", job_id |-> 0, ok |-> FALSE, message |-> "",
          args_ok |-> FALSE]

\* No call of _extract_attachments or _post_to_n8n_webhook is looked at.
NoLinkSrc == [form |-> "none", channel_id |-> <<>>, message_id |-> <<>>]
NoResp == [raises |-> FALSE, status_code |-> 0, attachments |-> <<>>]
NoIoRet == [raised |-> FALSE, returned |-> FALSE, images |-> <<>>,
            audios |-> <<>>, link |-> <<>>, request |-> <<>>, requests |-> 0]
IoIdle ==
    /\ io_fn = "idle"
    /\ io_pc = "returned"
    /\ message_link = <<>>
    /\ link_src = NoLinkSrc
    /\ resp = NoResp
    /\ io_ret = NoIoRet

\* No payload is looked at.
NoPayload == [of_set |-> 0, of_index |-> 0]
PayloadIdle ==
    /\ wizard_job = [num_videos |-> 0]
    /\ image_set_number = 0
    /\ item_index = 0
    /\ n8n_payload = NoPayload

\* app.py line 44
NoLease == [active |-> FALSE, ends_at |-> "None", reason |-> ""]
\* No request is looked at.
LeaseIdle ==
    /\ LONGFORM_JOB_STATE = NoLease
    /\ now = 0
    /\ lease_pc = <<>>
    /\ lease_req = <<>>
    /\ lease_ret = <<>>
    /\ grants = <<>>

\* quota_<client_id>.json does not exist
NoFile == [exists |-> FALSE]
\* No call is looked at.
QuotaIdle ==
    /\ quota_file = NoFile
    /\ quota_pc = <<>>
    /\ quota_op = <<>>
    /\ quota_data = <<>>
    /\ quota_ret = <<>>
    /\ quota_calls = 0

\* No thread is looked at.
LockIdle ==
    /\ job_lock = "none"
    /\ lk_stored = FALSE
    /\ lk_job = NoJob
    /\ lk_event = FALSE
    /\ lk_tracked = FALSE
    /\ lk_worker = <<>>
    /\ lk_request = "idle"
    /\ lk_main = <<>>
    /\ lk_unlocked = {}

\* Every separate specification but g is at rest.
IdleExcept(g) ==
    /\ IF g = "io" THEN TRUE ELSE IoIdle
    /\ IF g = "payload" THEN TRUE ELSE PayloadIdle
    /\ IF g = "lease" THEN TRUE ELSE LeaseIdle
    /\ IF g = "quota" THEN TRUE ELSE QuotaIdle
    /\ IF g = "lock" THEN TRUE ELSE LockIdle

\* The service as __init__ leaves it (lines 22-28)
JobInit ==
    /\ active_jobs = {}
    /\ job_data = [j \in JobIds |-> NoJob]
    /\ shutdown_event = FALSE
    /\ active_threads = {}
    /\ pc = [j \in JobIds |-> "none"]
    /\ set_no = [j \in JobIds |-> 0]
    /\ video_index = [j \in JobIds |-> 0]
    /\ wait_elapsed = [j \in JobIds |-> 0]
    /\ success = [j \in JobIds |-> FALSE]
    /\ cleanup_pc = "idle"
    /\ cleanup_calls = 0
    /\ bot_token \in BOOLEAN
    /\ ret = NoRet
    /\ attempted = [j \in JobIds |-> 0]
    /\ cancel_mark = [j \in JobIds |-> NoMark]
    /\ pending_cancel = [j \in JobIds |-> FALSE]
    /\ wait_cancel = [j \in JobIds |-> FALSE]
    /\ slices_cancel = [j \in JobIds |-> 0]
    /\ shutdown_mark = [j \in JobIds |-> NoMark]
    /\ slices_shutdown = [j \in JobIds |-> 0]
    /\ item_failures = [j \in JobIds |-> 0]

Init ==
    /\ JobInit
    /\ IdleExcept("job")


\* ------------------------------------------------------- create a job
\* A slip in line 118: the second image set is left out of the total.
TotalJobsOneSetOnly(num_videos, use_second_image_set) == num_videos

\* line 118: total_jobs = num_videos * (2 if use_second_image_set else 1)
TotalJobs(num_videos, use_second_image_set) ==
    num_videos * (IF use_second_image_set THEN 2 ELSE 1)

\* uuid.uuid4() yields an id no job has had: the least unused one stands for it.
FreshId(j) == pc[j] = "none" /\ \A k \in JobIds : k < j => pc[k] # "none"

\* The inputs besides num_videos that all([...]) of lines 107-108 looks at.
RequiredInputs ==
    {"webhook_url", "webhook_type", "titles", "audio_links",
     "background_audio_links", "image_links", "image_set_channel"}

\* A slip in lines 107-108: num_videos is left out of the list.
RequiredPresentNamesOnly(num_videos, present) == present = RequiredInputs

\* lines 107-108: all([num_videos, webhook_url, ...]); `present` holds the
\* names of the inputs that are truthy (a non-empty string or list).
RequiredPresent(num_videos, present) ==
    num_videos # 0 /\ present = RequiredInputs

\* lines 114-155: the record is stored and the worker thread is started.
\* titles, audio_links, background_audio_links and image_links hold
\* num_videos entries each; second_image_links holds second_len entries (None
\* and [] both give 0), and is read only when use_second_image_set.
\* num_videos is an int, or (num_videos_is_int false) a float of the same
\* value, as a JSON body with "numVideos": 2.0 gives: nothing in lines 105-158
\* tells them apart.
StoreAndStart(j, num_videos, num_videos_is_int, use_second_image_set, second_len, interval_minutes) ==
    /\ FreshId(j)
    /\ job_data' = [job_data EXCEPT ![j] =
          [num_videos |-> num_videos,
           num_videos_is_int |-> num_videos_is_int,
           use_second_image_set |-> use_second_image_set,
           second_len |-> second_len,
           interval_minutes |-> interval_minutes,
           total_items |-> TotalJobs(num_videos, use_second_image_set),
           completed |-> 0, failed |-> 0, status |-> "pending",
           next_post_time |-> "None", last_post_time |-> "None",
           errors |-> <<>>]]
    /\ active_jobs' = active_jobs \cup {j}
    /\ active_threads' = active_threads \cup {j}
    /\ pc' = [pc EXCEPT ![j] = "start"]
    /\ shutdown_mark' = [shutdown_mark EXCEPT
                            ![j] = IF shutdown_event THEN {0} ELSE NoMark]
    /\ UNCHANGED <<shutdown_event, set_no, video_index, wait_elapsed, success,
                   cleanup_pc, cleanup_calls, attempted, cancel_mark,
                   pending_cancel, wait_cancel, slices_cancel, slices_shutdown>>
    /\ UNCHANGED item_failures
    /\ UNCHANGED side_vars

\* lines 105-158. args_ok is what the caller knows about its own arguments.
\* The message of line 158 is kept up to " with {total_jobs} total jobs".
create_wizard_bulk_job(j, num_videos, num_videos_is_int, present, use_second_image_set, second_len, interval_minutes, args_ok) ==
    /\ UNCHANGED bot_token
    /\ IF ~RequiredPresent(num_videos, present)
       THEN /\ ret' = Returned("create_wizard_bulk_job", 0, FALSE,
                               "Missing required parameters", args_ok)
            /\ UNCHANGED <<active_jobs, job_data, shutdown_event,
                           active_threads, cleanup_pc, cleanup_calls>>
            /\ UNCHANGED worker_vars
            /\ UNCHANGED hist_vars
            /\ UNCHANGED item_failures
            /\ UNCHANGED side_vars
       ELSE IF ~bot_token
       THEN /\ ret' = Returned("create_wizard_bulk_job", 0, FALSE,
                               "Discord bot token not configured", args_ok)
            /\ UNCHANGED <<active_jobs, job_data, shutdown_event,
                           active_threads, cleanup_pc, cleanup_calls>>
            /\ UNCHANGED worker_vars
            /\ UNCHANGED hist_vars
            /\ UNCHANGED item_failures
            /\ UNCHANGED side_vars
       ELSE /\ StoreAndStart(j, num_videos, num_videos_is_int,
                             use_second_image_set, second_len,
                             interval_minutes)
            /\ ret' = Returned("create_wizard_bulk_job", j, TRUE,
                               "Wizard bulk job created successfully", args_ok)

\* A call with every required input, made when the token is configured.
CreateValid ==
    \E j \in JobIds :
        /\ FreshId(j)
        /\ bot_token
        /\ \E num_videos \in 1..MaxVideos, num_videos_is_int \in BOOLEAN,
              use_second_image_set \in BOOLEAN,
              second_len \in 0..MaxVideos, interval_minutes \in 0..MaxInterval :
              /\ (~use_second_image_set => second_len = 0)
              /\ (~num_videos_is_int => second_len = 0 /\ interval_minutes = 0)
              /\ create_wizard_bulk_job(j, num_videos, num_videos_is_int,
                                        RequiredInputs, use_second_image_set,
                                        second_len, interval_minutes, TRUE)

\* A call with every required input, made when no token is configured.
CreateWithoutToken ==
    /\ ~bot_token
    /\ create_wizard_bulk_job(1, 1, TRUE, RequiredInputs, FALSE, 0, 0, TRUE)

\* A call with one required input missing or empty (num_videos: 0).
CreateWithMissingInput ==
    \E m \in RequiredInputs \cup {"num_videos"} :
        create_wizard_bulk_job(1, IF m = "num_videos" THEN 0 ELSE 1, TRUE,
                               RequiredInputs \ {m}, FALSE, 0, 0, FALSE)

CreateJob == CreateValid \/ CreateWithoutToken \/ CreateWithMissingInput

\* ------------------------------------------------------- the worker
InStore(j) == j \in active_jobs

\* Leaving _process_image_set (a return, or the loop running out): line 181
\* starts image set 2 after set 1 when use_second_image_set, else line 185.
AfterSetPc(j) ==
    IF set_no[j] = 1 /\ job_data[j].use_second_image_set
    THEN "for" ELSE "finish"

\* A slip in lines 177-182: image set 1 is processed again in place of set 2.
AfterSetNoStays(j) == set_no[j]

AfterSetNo(j) ==
    IF set_no[j] = 1 /\ job_data[j].use_second_image_set THEN 2 ELSE set_no[j]

ReturnFromSet(j) ==
    /\ pc' = [pc EXCEPT ![j] = AfterSetPc(j)]
    /\ set_no' = [set_no EXCEPT ![j] = AfterSetNo(j)]
    /\ video_index' = [video_index EXCEPT ![j] = 0]

\* `continue`, or the end of the loop body: the for statement takes the
\* next index.
NextIteration(j) ==
    /\ pc' = [pc EXCEPT ![j] = "for"]
    /\ video_index' = [video_index EXCEPT ![j] = video_index[j] + 1]
    /\ UNCHANGED set_no

\* lines 177-182 and 217: the place of the item the worker is at in the job's
\* order of work (image set 1 with its videos in order, then image set 2)
ItemNumber(j) ==
    (set_no[j] - 1) * job_data[j].num_videos + video_index[j] + 1

\* lines 218-304: the worker is inside the loop body, past the loop-top checks
InItem(j) ==
    pc[j] \in {"extract_audio", "extract_image", "extract_failed", "post",
               "update", "item_except", "wait", "sleep", "mark_cancelled_wait"}

\* lines 169-173
WorkerStart(j) ==
    /\ pc[j] = "start"
    /\ IF InStore(j)
       THEN /\ job_data' = [job_data EXCEPT ![j].status = "running"]
            /\ pc' = [pc EXCEPT ![j] = "for"]
            /\ set_no' = [set_no EXCEPT ![j] = 1]
            /\ video_index' = [video_index EXCEPT ![j] = 0]
       ELSE /\ pc' = [pc EXCEPT ![j] = "finally"]
            /\ UNCHANGED <<job_data, set_no, video_index>>
    /\ UNCHANGED <<active_jobs, shutdown_event, active_threads, wait_elapsed,
                   success, cleanup_pc, cleanup_calls>>
    /\ UNCHANGED hist_vars
    /\ UNCHANGED api_vars
    /\ UNCHANGED item_failures
    /\ UNCHANGED side_vars

\* line 220: self._shutdown_event.is_set() at the top of the loop
LoopTopShutdown == shutdown_event

\* lines 217-220: the for statement, then the read of the shutdown event.
\* range(num_videos) raises TypeError when num_videos is a float; the
\* exception is raised outside the per-item try and caught at line 306.
LoopTop(j) ==
    /\ pc[j] = "for"
    /\ IF ~job_data[j].num_videos_is_int
       THEN /\ pc' = [pc EXCEPT ![j] = "set_except"]
            /\ UNCHANGED <<set_no, video_index>>
       ELSE IF video_index[j] >= job_data[j].num_videos
       THEN ReturnFromSet(j)
       ELSE /\ pc' = [pc EXCEPT ![j] = IF LoopTopShutdown
                                       THEN "mark_cancelled" ELSE "chk_cancel"]
            /\ UNCHANGED <<set_no, video_index>>
    /\ UNCHANGED <<active_jobs, job_data, shutdown_event, active_threads,
                   wait_elapsed, success, cleanup_pc, cleanup_calls>>
    /\ UNCHANGED hist_vars
    /\ UNCHANGED api_vars
    /\ UNCHANGED item_failures
    /\ UNCHANGED side_vars

\* lines 222-225
MarkCancelledTop(j) ==
    /\ pc[j] = "mark_cancelled"
    /\ job_data' = IF InStore(j)
                   THEN [job_data EXCEPT ![j].status = "cancelled"]
                   ELSE job_data
    /\ ReturnFromSet(j)
    /\ UNCHANGED <<active_jobs, shutdown_event, active_threads, wait_elapsed,
                   success, cleanup_pc, cleanup_calls>>
    /\ UNCHANGED hist_vars
    /\ UNCHANGED api_vars
    /\ UNCHANGED item_failures
    /\ UNCHANGED side_vars

\* A slip in line 228: the status is not looked at.
LoopTopCancelledStoreOnly(j) == ~InStore(j)

\* line 228: job_id not in self.active_jobs or job_data['status'] == 'cancelled'
LoopTopCancelled(j) == ~InStore(j) \/ job_data[j].status = "cancelled"

\* lines 232-235: titles[video_index] ... image_links[video_index]; the only
\* list that can be short here is second_image_links (IndexError).
IndexInRange(j) == set_no[j] = 1 \/ video_index[j] < job_data[j].second_len

\* lines 227-235
CheckCancelled(j) ==
    /\ pc[j] = "chk_cancel"
    /\ IF LoopTopCancelled(j)
       THEN /\ ReturnFromSet(j)
            /\ UNCHANGED attempted
       ELSE /\ pc' = [pc EXCEPT ![j] = IF IndexInRange(j)
                                       THEN "extract_audio" ELSE "item_except"]
            /\ attempted' = [attempted EXCEPT ![j] = attempted[j] + 1]
            /\ UNCHANGED <<set_no, video_index>>
    /\ UNCHANGED <<active_jobs, job_data, shutdown_event, active_threads,
                   wait_elapsed, success, cleanup_pc, cleanup_calls,
                   cancel_mark, pending_cancel, wait_cancel, slices_cancel,
                   shutdown_mark, slices_shutdown>>
    /\ UNCHANGED api_vars
    /\ UNCHANGED item_failures
    /\ UNCHANGED side_vars

\* line 239: self._extract_attachments(audio_link) returns or raises
ExtractAudio(j) ==
    /\ pc[j] = "extract_audio"
    /\ \E ok \in BOOLEAN :
          /\ pc' = [pc EXCEPT ![j] = IF ok THEN "extract_image"
                                     ELSE "extract_failed"]
          /\ item_failures' = [item_failures EXCEPT
                                  ![j] = IF ok THEN @ ELSE @ + 1]
    /\ UNCHANGED <<active_jobs, job_data, shutdown_event, active_threads,
                   set_no, video_index, wait_elapsed, success, cleanup_pc,
                   cleanup_calls>>
    /\ UNCHANGED hist_vars
    /\ UNCHANGED api_vars
    /\ UNCHANGED side_vars

\* lines 241-242: self._extract_attachments(image_link) returns or raises
ExtractImage(j) ==
    /\ pc[j] = "extract_image"
    /\ \E ok \in BOOLEAN :
          /\ pc' = [pc EXCEPT ![j] = IF ok THEN "post" ELSE "extract_failed"]
          /\ item_failures' = [item_failures EXCEPT
                                  ![j] = IF ok THEN @ ELSE @ + 1]
    /\ UNCHANGED <<active_jobs, job_data, shutdown_event, active_threads,
                   set_no, video_index, wait_elapsed, success, cleanup_pc,
                   cleanup_calls>>
    /\ UNCHANGED hist_vars
    /\ UNCHANGED api_vars
    /\ UNCHANGED side_vars

\* lines 246-249: what the handler of an extraction failure records
RecordExtractFailure(d) ==
    [d EXCEPT !.failed = d.failed + 1,
              !.errors = Append(d.errors, "extract")]

\* lines 243-250
ExtractFailed(j) ==
    /\ pc[j] = "extract_failed"
    /\ job_data' = IF InStore(j)
                   THEN [job_data EXCEPT ![j] = RecordExtractFailure(job_data[j])]
                   ELSE job_data
    /\ NextIteration(j)
    /\ UNCHANGED <<active_jobs, shutdown_event, active_threads, wait_elapsed,
                   success, cleanup_pc, cleanup_calls>>
    /\ UNCHANGED hist_vars
    /\ UNCHANGED api_vars
    /\ UNCHANGED item_failures
    /\ UNCHANGED side_vars

\* lines 263-264: _post_to_n8n_webhook returns True or False
PostToWebhook(j) ==
    /\ pc[j] = "post"
    /\ \E ok \in BOOLEAN :
          /\ success' = [success EXCEPT ![j] = ok]
          /\ item_failures' = [item_failures EXCEPT
                                  ![j] = IF ok THEN @ ELSE @ + 1]
    /\ pc' = [pc EXCEPT ![j] = "update"]
    /\ UNCHANGED <<active_jobs, job_data, shutdown_event, active_threads,
                   set_no, video_index, wait_elapsed, cleanup_pc,
                   cleanup_calls>>
    /\ UNCHANGED hist_vars
    /\ UNCHANGED api_vars
    /\ UNCHANGED side_vars

\* lines 276-277 and 284-285: current_job_number < job_data['total_items']
NotLastItem(d) == d.completed < d.total_items

\* lines 268-279: what the worker records after a dispatch
RecordDispatch(d, ok) ==
    LET counted == [d EXCEPT !.completed = d.completed + 1,
                             !.last_post_time = "set"]
        failed == IF ok THEN counted
                  ELSE [counted EXCEPT !.failed = counted.failed + 1,
                                       !.errors = Append(counted.errors, "post")]
    IN  IF NotLastItem(failed)
        THEN [failed EXCEPT !.next_post_time = "set"]
        ELSE failed

\* line 287: wait_time_seconds = job_data['interval_minutes'] * 60
WaitTimeSeconds(d) == d.interval_minutes * SecondsPerMinute

\* lines 266-289: the bookkeeping under the lock, then the decision to wait.
\* range(0, wait_time_seconds, chunk_size) is empty when the interval is 0.
\* The local `success` is not read again and is forgotten here.
UpdateProgress(j) ==
    /\ pc[j] = "update"
    /\ job_data' = IF InStore(j)
                   THEN [job_data EXCEPT ![j] = RecordDispatch(job_data[j], success[j])]
                   ELSE job_data
    /\ IF NotLastItem(job_data'[j]) /\ WaitTimeSeconds(job_data'[j]) > 0
       THEN /\ pc' = [pc EXCEPT ![j] = "wait"]
            /\ wait_elapsed' = [wait_elapsed EXCEPT ![j] = 0]
            /\ UNCHANGED <<set_no, video_index>>
       ELSE /\ NextIteration(j)
            /\ UNCHANGED wait_elapsed
    /\ success' = [success EXCEPT ![j] = FALSE]
    /\ UNCHANGED <<active_jobs, shutdown_event, active_threads, cleanup_pc,
                   cleanup_calls>>
    /\ UNCHANGED hist_vars
    /\ UNCHANGED api_vars
    /\ UNCHANGED item_failures
    /\ UNCHANGED side_vars

\* A slip in line 290: the wait never looks at the shutdown event.
WaitShutdownIgnored == FALSE

\* line 290: self._shutdown_event.is_set() at the head of a sleep slice
WaitShutdown == shutdown_event

\* lines 289-290: a slice remains; the shutdown event is read before it
WaitCheck(j) ==
    /\ pc[j] = "wait"
    /\ pc' = [pc EXCEPT ![j] = IF WaitShutdown THEN "mark_cancelled_wait"
                               ELSE "sleep"]
    /\ UNCHANGED <<active_jobs, job_data, shutdown_event, active_threads,
                   set_no, video_index, wait_elapsed, success, cleanup_pc,
                   cleanup_calls>>
    /\ UNCHANGED hist_vars
    /\ UNCHANGED api_vars
    /\ UNCHANGED item_failures
    /\ UNCHANGED side_vars

\* lines 292-295
MarkCancelledWait(j) ==
    /\ pc[j] = "mark_cancelled_wait"
    /\ job_data' = IF InStore(j)
                   THEN [job_data EXCEPT ![j].status = "cancelled"]
                   ELSE job_data
    /\ ReturnFromSet(j)
    /\ wait_elapsed' = [wait_elapsed EXCEPT ![j] = 0]
    /\ UNCHANGED <<active_jobs, shutdown_event, active_threads, success,
                   cleanup_pc, cleanup_calls>>
    /\ UNCHANGED hist_vars
    /\ UNCHANGED api_vars
    /\ UNCHANGED item_failures
    /\ UNCHANGED side_vars

Capped(n) == IF n < SliceCap THEN n + 1 ELSE SliceCap

\* line 296: time.sleep(min(chunk_size, wait_time_seconds - wait_elapsed)),
\* then the range yields wait_elapsed + chunk_size or runs out (the local
\* wait_elapsed is forgotten when the wait ends)
SleepSlice(j) ==
    /\ pc[j] = "sleep"
    /\ IF wait_elapsed[j] + chunk_size < WaitTimeSeconds(job_data[j])
       THEN /\ pc' = [pc EXCEPT ![j] = "wait"]
            /\ wait_elapsed' = [wait_elapsed EXCEPT ![j] = @ + chunk_size]
            /\ UNCHANGED <<set_no, video_index>>
       ELSE /\ NextIteration(j)
            /\ wait_elapsed' = [wait_elapsed EXCEPT ![j] = 0]
    /\ slices_cancel' = [slices_cancel EXCEPT ![j] =
                            IF wait_cancel[j] THEN Capped(@) ELSE @]
    /\ slices_shutdown' = [slices_shutdown EXCEPT ![j] =
                              IF shutdown_event THEN Capped(@) ELSE @]
    /\ UNCHANGED <<active_jobs, job_data, shutdown_event, active_threads,
                   success, cleanup_pc, cleanup_calls, attempted, cancel_mark,
                   pending_cancel, wait_cancel, shutdown_mark>>
    /\ UNCHANGED api_vars
    /\ UNCHANGED item_failures
    /\ UNCHANGED side_vars

\* lines 301-304: what the per-item handler records
RecordItemError(d) ==
    [d EXCEPT !.failed = d.failed + 1,
              !.errors = Append(d.errors, "item")]

\* lines 298-304
ItemException(j) ==
    /\ pc[j] = "item_except"
    /\ job_data' = IF InStore(j)
                   THEN [job_data EXCEPT ![j] = RecordItemError(job_data[j])]
                   ELSE job_data
    /\ NextIteration(j)
    /\ UNCHANGED <<active_jobs, shutdown_event, active_threads, wait_elapsed,
                   success, cleanup_pc, cleanup_calls>>
    /\ UNCHANGED hist_vars
    /\ UNCHANGED api_vars
    /\ UNCHANGED item_failures
    /\ UNCHANGED side_vars

\* lines 309-311: what the handler of _process_image_set records
RecordSetError(d) == [d EXCEPT !.errors = Append(d.errors, "set")]

\* lines 306-311: the exception is swallowed and _process_image_set returns
\* normally to _process_wizard_job
SetException(j) ==
    /\ pc[j] = "set_except"
    /\ job_data' = IF InStore(j)
                   THEN [job_data EXCEPT ![j] = RecordSetError(job_data[j])]
                   ELSE job_data
    /\ ReturnFromSet(j)
    /\ UNCHANGED <<active_jobs, shutdown_event, active_threads, wait_elapsed,
                   success, cleanup_pc, cleanup_calls>>
    /\ UNCHANGED hist_vars
    /\ UNCHANGED api_vars
    /\ UNCHANGED item_failures
    /\ UNCHANGED side_vars

\* A slip in line 187: a job with failed items is reported as error.
MarkCompletedUnlessFailed(d) ==
    [d EXCEPT !.status = IF d.failed > 0 THEN "error" ELSE "completed",
              !.next_post_time = "None"]

\* lines 187-188
MarkCompleted(d) == [d EXCEPT !.status = "completed", !.next_post_time = "None"]

\* lines 184-188
FinishJob(j) ==
    /\ pc[j] = "finish"
    /\ job_data' = IF InStore(j)
                   THEN [job_data EXCEPT ![j] = MarkCompleted(job_data[j])]
                   ELSE job_data
    /\ pc' = [pc EXCEPT ![j] = "finally"]
    /\ UNCHANGED <<active_jobs, shutdown_event, active_threads, set_no,
                   video_index, wait_elapsed, success, cleanup_pc,
                   cleanup_calls>>
    /\ UNCHANGED hist_vars
    /\ UNCHANGED api_vars
    /\ UNCHANGED item_failures
    /\ UNCHANGED side_vars

\* lines 198-202; the thread ends and its locals are gone
WorkerFinally(j) ==
    /\ pc[j] = "finally"
    /\ active_threads' = active_threads \ {j}
    /\ pc' = [pc EXCEPT ![j] = "done"]
    /\ set_no' = [set_no EXCEPT ![j] = 0]
    /\ video_index' = [video_index EXCEPT ![j] = 0]
    /\ UNCHANGED <<active_jobs, job_data, shutdown_event, wait_elapsed,
                   success, cleanup_pc, cleanup_calls>>
    /\ UNCHANGED hist_vars
    /\ UNCHANGED api_vars
    /\ UNCHANGED item_failures
    /\ UNCHANGED side_vars

\* ------------------------------------------------------- cancel_job
\* The items of job j whose processing has begun: those past the loop-top
\* cancellation check of lines 227-229.
ItemsBegun(j) == attempted[j]

\* A slip in line 405: a job of the store is cancelled whatever its status.
CancelRefusedUnknownOnly(j) == ~InStore(j)

\* lines 401 and 405: the two conditions under which cancel_job refuses
CancelRefused(j) == ~InStore(j) \/ job_data[j].status \in Terminal

\* lines 404-409: a pending or running job is cancelled
CancelSucceeds(j) ==
    /\ ~CancelRefused(j)
    /\ job_data' = [job_data EXCEPT ![j].status = "cancelled"]
    /\ ret' = Returned("cancel_job", j, TRUE, "Job cancelled successfully", TRUE)
    /\ pending_cancel' = [pending_cancel EXCEPT ![j] = @ \/ pc[j] = "start"]
    /\ cancel_mark' = [cancel_mark EXCEPT ![j] =
                          IF job_data[j].status = "running"
                          THEN {ItemsBegun(j)} ELSE @]
    /\ wait_cancel' = [wait_cancel EXCEPT ![j] = pc[j] \in {"wait", "sleep"}]
    /\ slices_cancel' = [slices_cancel EXCEPT ![j] = 0]
    /\ UNCHANGED <<active_jobs, shutdown_event, active_threads, cleanup_pc,
                   cleanup_calls, attempted, shutdown_mark, slices_shutdown,
                   bot_token>>
    /\ UNCHANGED worker_vars
    /\ UNCHANGED item_failures
    /\ UNCHANGED side_vars

\* line 406: f"Job is already {job_data['status']}"
AlreadyMessage(st) ==
    CASE st = "completed" -> "Job is already completed"
      [] st = "cancelled" -> "Job is already cancelled"
      [] OTHER -> "Job is already error"

\* lines 401-402 and 405-406: "Job not found", "Job is already ..."
CancelFails(j) ==
    /\ CancelRefused(j)
    /\ ret' = Returned("cancel_job", j, FALSE,
                       IF ~InStore(j) THEN "Job not found"
                       ELSE AlreadyMessage(job_data[j].status), TRUE)
    /\ UNCHANGED <<active_jobs, job_data, shutdown_event, active_threads,
                   cleanup_pc, cleanup_calls, bot_token>>
    /\ UNCHANGED worker_vars
    /\ UNCHANGED hist_vars
    /\ UNCHANGED item_failures
    /\ UNCHANGED side_vars

cancel_job(j) == CancelSucceeds(j) \/ CancelFails(j)

\* ------------------------------------------------------- the read operations
\* lines 393-396: self.active_jobs.get(job_id); None is the empty set here
\* and a record d is {d}
get_job_status(j) == IF InStore(j) THEN {job_data[j]} ELSE {}

\* lines 411-414: self.active_jobs.copy()
get_all_jobs == [j \in active_jobs |-> job_data[j]]

\* ------------------------------------------------------- _cleanup_on_exit
\* The items of job j in progress when the shutdown event is set: those past
\* the loop-top read of the event (line 220).
ItemsPastShutdownCheck(j) ==
    attempted[j] + (IF pc[j] = "chk_cancel" THEN 1 ELSE 0)

\* line 49
CleanupSetEvent ==
    /\ cleanup_pc = "idle"
    /\ cleanup_calls < MaxCleanups
    /\ cleanup_calls' = cleanup_calls + 1
    /\ shutdown_event' = TRUE
    /\ cleanup_pc' = "lock"
    /\ shutdown_mark' = [j \in JobIds |->
                            IF Created(j) /\ ~shutdown_event
                            THEN {ItemsPastShutdownCheck(j)}
                            ELSE shutdown_mark[j]]
    /\ UNCHANGED <<active_jobs, job_data, active_threads, attempted,
                   cancel_mark, pending_cancel, wait_cancel, slices_cancel,
                   slices_shutdown>>
    /\ UNCHANGED worker_vars
    /\ UNCHANGED api_vars
    /\ UNCHANGED item_failures
    /\ UNCHANGED side_vars

\* lines 53-55: a pending or running job of the store becomes cancelled
CancelledByShutdown(d) ==
    IF d.status \in {"pending", "running"}
    THEN [d EXCEPT !.status = "cancelled"] ELSE d

\* lines 51-60
CleanupCancelAll ==
    /\ cleanup_pc = "lock"
    /\ job_data' = [j \in JobIds |->
                       IF InStore(j) THEN CancelledByShutdown(job_data[j])
                       ELSE job_data[j]]
    /\ active_jobs' = {}
    /\ cleanup_pc' = "threads"
    /\ UNCHANGED <<shutdown_event, active_threads, cleanup_calls>>
    /\ UNCHANGED worker_vars
    /\ UNCHANGED hist_vars
    /\ UNCHANGED api_vars
    /\ UNCHANGED item_failures
    /\ UNCHANGED side_vars

\* line 63: if self._active_threads
CleanupCheckThreads ==
    /\ cleanup_pc = "threads"
    /\ cleanup_pc' = IF active_threads # {} THEN "join" ELSE "idle"
    /\ UNCHANGED <<active_jobs, job_data, shutdown_event, active_threads,
                   cleanup_calls>>
    /\ UNCHANGED worker_vars
    /\ UNCHANGED hist_vars
    /\ UNCHANGED api_vars
    /\ UNCHANGED item_failures
    /\ UNCHANGED side_vars

\* lines 65-72: each join returns when its thread ends or after 5 seconds,
\* so the joins only delay the clear
CleanupJoin ==
    /\ cleanup_pc = "join"
    /\ active_threads' = {}
    /\ cleanup_pc' = "idle"
    /\ UNCHANGED <<active_jobs, job_data, shutdown_event, cleanup_calls>>
    /\ UNCHANGED worker_vars
    /\ UNCHANGED hist_vars
    /\ UNCHANGED api_vars
    /\ UNCHANGED item_failures
    /\ UNCHANGED side_vars

\* ------------------------------------------------------- the system
Worker(j) ==
    \/ WorkerStart(j)
    \/ LoopTop(j)
    \/ MarkCancelledTop(j)
    \/ CheckCancelled(j)
    \/ ExtractAudio(j)
    \/ ExtractImage(j)
    \/ ExtractFailed(j)
    \/ PostToWebhook(j)
    \/ UpdateProgress(j)
    \/ WaitCheck(j)
    \/ MarkCancelledWait(j)
    \/ SleepSlice(j)
    \/ ItemException(j)
    \/ SetException(j)
    \/ FinishJob(j)
    \/ WorkerFinally(j)

Next ==
    \/ CreateJob
    \/ \E j \in JobIds : Worker(j)
    \/ \E j \in JobIds : cancel_job(j)
    \/ CleanupSetEvent
    \/ CleanupCancelAll
    \/ CleanupCheckThreads
    \/ CleanupJoin

Spec == Init /\ [][Next]_vars

\* ===================================================================
\* The claims
\* ===================================================================
StatusRank(st) ==
    CASE st = "pending" -> 0
      [] st = "running" -> 1
      [] OTHER -> 2

\* C1: a job's status only moves forward along pending -> running ->
\* {completed, cancelled, error}; once it is completed, cancelled or error it
\* never changes again. (Stated as written; the code breaks it.)
C1_StatusOnlyMovesForward ==
    [][\A j \in JobIds :
          Created(j) =>
             \/ job_data'[j].status = job_data[j].status
             \/ /\ job_data[j].status \notin Terminal
                /\ StatusRank(job_data'[j].status) > StatusRank(job_data[j].status)]_vars

\* C2: in every reachable state failed <= completed, for every job.
\* (Stated as written; the code breaks it.)
C2_FailedWithinCompleted ==
    \A j \in JobIds : Created(j) => job_data[j].failed <= job_data[j].completed

\* C3: in every reachable state completed <= total_items, for every job,
\* total_items being num_videos * (2 if use_second_image_set else 1) as fixed
\* at creation.
C3_CompletedWithinTotal ==
    \A j \in JobIds :
        Created(j) =>
            /\ job_data[j].completed <= job_data[j].total_items
            /\ job_data[j].total_items =
                  job_data[j].num_videos *
                     (IF job_data[j].use_second_image_set THEN 2 ELSE 1)

\* C3's case: a job with two image sets has dispatched every one of its items.
C3_Witness ==
    \E j \in JobIds :
        /\ job_data[j].use_second_image_set
        /\ job_data[j].num_videos = MaxVideos
        /\ job_data[j].completed = job_data[j].total_items

\* C4: after a cancel_job that succeeded while the job was pending (worker
\* thread created, not yet run), the worker never sets the status to running
\* and never gets an item past the loop-top checks (so it starts no extraction
\* and no dispatch). (Stated as written; the code breaks it.)
C4_PendingCancelStopsWorker ==
    \A j \in JobIds :
        pending_cancel[j] =>
            /\ job_data[j].status # "running"
            /\ attempted[j] = 0

\* C5: after a cancel_job that succeeded while the job was running, no item
\* gets past the loop-top checks that had not got past them when the job was
\* cancelled: the worker starts extractions and dispatches only for the item
\* that was in flight.
C5_NoNewItemAfterCancel ==
    \A j \in JobIds :
        \A begun \in cancel_mark[j] :
            /\ attempted[j] = begun
            /\ pc[j] \in {"extract_audio", "extract_image", "extract_failed",
                          "post", "update", "item_except"}
                  => (set_no[j] - 1) * job_data[j].num_videos + video_index[j] + 1
                        <= begun

\* C5's case: a running job was cancelled with an item in flight and items
\* left, no shutdown took place, and the worker has ended.
C5_Witness ==
    \E j \in JobIds :
        /\ ~shutdown_event
        /\ pc[j] = "done"
        /\ \E begun \in cancel_mark[j] :
              /\ begun >= 1
              /\ begun < job_data[j].total_items
              /\ job_data[j].completed = begun

\* C6: whenever a job's status is completed, every one of its total_items
\* items has been attempted; a job that stopped early is never reported as
\* completed. (Stated as written; the code breaks it.)
C6_CompletedMeansAllAttempted ==
    \A j \in JobIds :
        job_data[j].status = "completed" =>
            attempted[j] = job_data[j].total_items

\* C7: once a job's status is terminal, its counters completed and failed are
\* never modified again. (Stated as written; the code breaks it.)
C7_CountersFrozenOnceTerminal ==
    [][\A j \in JobIds :
          job_data[j].status \in Terminal =>
             /\ job_data'[j].completed = job_data[j].completed
             /\ job_data'[j].failed = job_data[j].failed]_vars

\* C8: when the extraction of an item fails, failed grows by exactly 1,
\* completed grows by exactly 1, an error is appended, and the worker goes on
\* to the next item. (Stated as written; the code breaks it.)
C8_ExtractFailureCountsAsAttempt ==
    [][\A j \in JobIds :
          (pc[j] = "extract_failed" /\ pc'[j] # "extract_failed") =>
             /\ job_data'[j].failed = job_data[j].failed + 1
             /\ job_data'[j].completed = job_data[j].completed + 1
             /\ Len(job_data'[j].errors) = Len(job_data[j].errors) + 1
             /\ pc'[j] = "for"]_vars

\* C9: after a cancel_job that succeeded while the worker was inside its
\* interval wait, the worker performs at most one more sleep slice.
\* (Stated as written; the code breaks it.)
C9_CancelSeenWithinOneSlice ==
    \A j \in JobIds : wait_cancel[j] => slices_cancel[j] <= 1

\* C10: once _cleanup_on_exit has set the shutdown event, no worker gets a
\* further item past the loop-top checks (so it starts no extraction and no
\* dispatch for one), and a worker performs at most one more sleep slice; for
\* every job, also one created after the event was set.
C10_ShutdownStopsWorkers ==
    \A j \in JobIds :
        (Created(j) /\ shutdown_event) =>
            /\ shutdown_mark[j] # NoMark
            /\ \A begun \in shutdown_mark[j] : attempted[j] <= begun
            /\ slices_shutdown[j] <= 1

\* C10's case: the event was set while a worker was in its interval wait; the
\* worker slept one more slice, ended, and left items unprocessed.
C10_Witness ==
    \E j \in JobIds :
        /\ shutdown_event
        /\ pc[j] = "done"
        /\ slices_shutdown[j] = 1
        /\ attempted[j] >= 1
        /\ attempted[j] < job_data[j].total_items

\* A job that no cancel_job ever cancelled.
NeverCancelled(j) == cancel_mark[j] = {} /\ ~pending_cancel[j]

\* C11: the critical section of _cleanup_on_exit sets every pending or
\* running job of the store to cancelled, leaves the other jobs as they are
\* and empties the store; when _cleanup_on_exit returns, get_job_status gives
\* None for every job created so far and get_all_jobs gives an empty mapping.
\* (Stated as written; the code breaks it.)
C11_CleanupEmptiesStore ==
    [][/\ (cleanup_pc = "lock" /\ cleanup_pc' = "threads") =>
              /\ \A j \in JobIds :
                    InStore(j) =>
                       job_data'[j] =
                          IF job_data[j].status \in {"pending", "running"}
                          THEN [job_data[j] EXCEPT !.status = "cancelled"]
                          ELSE job_data[j]
              /\ active_jobs' = {}
       /\ (cleanup_pc # "idle" /\ cleanup_pc' = "idle") =>
              /\ \A j \in JobIds : Created(j)' => get_job_status(j)' = {}
              /\ DOMAIN get_all_jobs' = {}]_vars

\* C12: a cancel_job that finds the job pending or running returns success
\* and changes nothing but that job's status, which becomes cancelled; any
\* other cancel_job (job completed, cancelled or error, or id unknown)
\* returns False with a reason and changes no field of any job record. (A
\* step of cancel_job is a step that returns from cancel_job and is no step
\* of a worker or of _cleanup_on_exit.)
C12_CancelChangesOnlyStatus ==
    [][(/\ UNCHANGED worker_vars
        /\ cleanup_pc' = cleanup_pc
        /\ ret'.op = "cancel_job") =>
          LET j == ret'.job_id
          IN  /\ active_jobs' = active_jobs
              /\ IF InStore(j) /\ job_data[j].status \in {"pending", "running"}
                 THEN /\ ret'.ok
                      /\ job_data' = [job_data EXCEPT ![j].status = "cancelled"]
                 ELSE /\ ~ret'.ok
                      /\ ret'.message # ""
                      /\ job_data' = job_data]_vars

\* C12's case: cancel_job has been refused for a job that had completed.
C12_Witness ==
    /\ ret.op = "cancel_job"
    /\ ~ret.ok
    /\ ret.message = "Job is already completed"
    /\ ret.job_id \in active_jobs
    /\ job_data[ret.job_id].status = "completed"

\* C13: in every reachable state a job whose status is completed, cancelled
\* or error has next_post_time None. (Stated as written; the code breaks it.)
C13_TerminalClearsNextPostTime ==
    \A j \in JobIds :
        (Created(j) /\ job_data[j].status \in Terminal)
            => job_data[j].next_post_time = "None"

\* C14: when the worker records the outcome of the final item of a job (the
\* last video of the last enabled image set) it does not set next_post_time,
\* and it sleeps no slice of the interval after that item, whatever the
\* earlier items did. (Stated as written; the code breaks it.)
C14_NoWaitAfterFinalItem ==
    [][\A j \in JobIds :
          /\ (pc[j] = "update" /\ ItemNumber(j) = job_data[j].total_items)
                => job_data'[j].next_post_time = job_data[j].next_post_time
          /\ pc[j] = "sleep" => ItemNumber(j) < job_data[j].total_items]_vars

C16_EscapedExceptionMeansError ==
    \A j \in JobIds :
        (\E i \in 1..Len(job_data[j].errors) : job_data[j].errors[i] = "set")
            => /\ ~(pc[j] = "for" /\ set_no[j] = 2)
               /\ (pc[j] = "done" /\ NeverCancelled(j) /\ ~shutdown_event)
                     => job_data[j].status = "error"

\* C17: total_items is num_videos * (2 if use_second_image_set else 1), and
\* the k-th item a worker begins is the k-th item of the order video
\* 0..num_videos-1 of image set 1, then video 0..num_videos-1 of image set 2:
\* none is skipped, none is begun twice, and never more than total_items.
C17_ItemsInOrder ==
    \A j \in JobIds :
        Created(j) =>
            /\ job_data[j].total_items =
                  job_data[j].num_videos *
                     (IF job_data[j].use_second_image_set THEN 2 ELSE 1)
            /\ attempted[j] <= job_data[j].total_items
            /\ InItem(j) => ItemNumber(j) = attempted[j]

\* C17's case: the worker is at the last video of image set 2 of a job of
\* MaxVideos videos, as the last of its items.
C17_Witness ==
    \E j \in JobIds :
        /\ job_data[j].num_videos = MaxVideos
        /\ pc[j] = "update"
        /\ set_no[j] = 2
        /\ video_index[j] = MaxVideos - 1
        /\ attempted[j] = 2 * MaxVideos

\* C18: a job that was never cancelled and never met a shutdown has, when its
\* worker ends, status completed and completed == total_items; and with
\* interval_minutes = 0 its worker performs no sleep slice. (Stated as
\* written; the code breaks it.)
C18_UncancelledJobCompletesAll ==
    \A j \in JobIds :
        /\ (pc[j] = "done" /\ NeverCancelled(j) /\ ~shutdown_event)
              => /\ job_data[j].status = "completed"
                 /\ job_data[j].completed = job_data[j].total_items
        /\ pc[j] = "sleep" => job_data[j].interval_minutes > 0

\* C19: the first call of _cleanup_on_exit leaves the shutdown flag set, the
\* job store empty and the active-thread set empty, and no step of a second
\* call changes the flag, the store, a job record or the thread set.
\* (Stated as written; the code breaks it.)
C19_CleanupIdempotent ==
    [][/\ (cleanup_calls = 1 /\ cleanup_pc # "idle" /\ cleanup_pc' = "idle")
              => /\ shutdown_event'
                 /\ active_jobs' = {}
                 /\ active_threads' = {}
       /\ (cleanup_calls' = 2 /\ cleanup_pc' # cleanup_pc /\ shutdown_event
              /\ active_jobs = {} /\ active_threads = {})
              => UNCHANGED <<active_jobs, job_data, shutdown_event,
                             active_threads>>]_vars

\* C20: create_wizard_bulk_job succeeds exactly when every required input is
\* present and non-empty and a bot token is configured. When it fails it
\* returns no job id and a message, adds no record and starts no thread; when
\* it succeeds it adds exactly one record, with status pending, completed 0,
\* failed 0 and no errors, and starts exactly one worker thread. (A step of
\* create_wizard_bulk_job is a step that returns from it and is no step of
\* _cleanup_on_exit or of a worker already started.)
C20_CreateValidates ==
    [][(/\ ret'.op = "create_wizard_bulk_job"
        /\ cleanup_pc' = cleanup_pc
        /\ \/ UNCHANGED worker_vars
           \/ \E j \in JobIds : pc[j] = "none" /\ pc'[j] = "start") =>
          /\ ret'.ok <=> (ret'.args_ok /\ bot_token)
          /\ ~ret'.ok =>
                /\ ret'.job_id = 0
                /\ ret'.message # ""
                /\ UNCHANGED <<active_jobs, job_data, active_threads, pc>>
          /\ ret'.ok =>
                LET j == ret'.job_id
                IN  /\ j \in JobIds \ active_jobs
                    /\ active_jobs' = active_jobs \cup {j}
                    /\ pc[j] = "none"
                    /\ pc' = [pc EXCEPT ![j] = "start"]
                    /\ j \notin active_threads
                    /\ active_threads' = active_threads \cup {j}
                    /\ job_data'[j].status = "pending"
                    /\ job_data'[j].completed = 0
                    /\ job_data'[j].failed = 0
                    /\ job_data'[j].errors = <<>>
                    /\ \A i \in JobIds \ {j} : job_data'[i] = job_data[i]]_vars

\* C20's case: a call with a required input missing has been refused while
\* the store holds a running job, whose worker is at work.
C20_Witness ==
    /\ ret.op = "create_wizard_bulk_job"
    /\ ~ret.ok
    /\ ~ret.args_ok
    /\ ret.message = "Missing required parameters"
    /\ \E j \in active_jobs : job_data[j].status = "running" /\ InItem(j)

\* ===================================================================
\* _extract_attachments and _post_to_n8n_webhook, one call at a time
\* ===================================================================
\* Strings are sequences of one-character strings, so that replace, strip,
\* split, lower and endswith do what Python's do.
MaxAttachments == 8

\* lines 333-336 and 346: the literals of the link clean-up
S_discordapp_com == <<"d", "i", "s", "c", "o", "r", "d", "a", "p", "p", ".", "c", "o", "m">>
S_discord_com == <<"d", "i", "s", "c", "o", "r", "d", ".", "c", "o", "m">>
S_discord_scheme == <<"d", "i", "s", "c", "o", "r", "d", ":", "/", "/">>
S_discord_scheme_discord == <<"d", "i", "s", "c", "o", "r", "d", ":", "/", "/", "d", "i", "s", "c", "o", "r", "d">>
S_https_discord_com == <<"h", "t", "t", "p", "s", ":", "/", "/", "d", "i", "s", "c", "o", "r", "d", ".", "c", "o", "m">>
S_https_discord_com_slash == <<"h", "t", "t", "p", "s", ":", "/", "/", "d", "i", "s", "c", "o", "r", "d", ".", "c", "o", "m", "/">>

\* str.startswith, the `in` of two strings, str.endswith
StartsWith(str, prefix) ==
    Len(str) >= Len(prefix) /\ SubSeq(str, 1, Len(prefix)) = prefix
Contains(str, sub) ==
    \E i \in 1..(Len(str) - Len(sub) + 1) : SubSeq(str, i, i + Len(sub) - 1) = sub
EndsWith(str, suffix) ==
    /\ Len(str) >= Len(suffix)
    /\ SubSeq(str, Len(str) - Len(suffix) + 1, Len(str)) = suffix

\* str.replace(old, new): every occurrence, left to right, without overlap
RECURSIVE Replace(_, _, _)
Replace(str, old, new) ==
    IF Len(str) < Len(old) THEN str
    ELSE IF StartsWith(str, old)
         THEN new \o Replace(SubSeq(str, Len(old) + 1, Len(str)), old, new)
         ELSE <<Head(str)>> \o Replace(Tail(str), old, new)

\* str.strip(chars): the characters of `chars` are taken off both ends
RECURSIVE LStrip(_, _)
LStrip(str, chars) ==
    IF str # <<>> /\ Head(str) \in chars THEN LStrip(Tail(str), chars) ELSE str
RECURSIVE RStrip(_, _)
RStrip(str, chars) ==
    IF str # <<>> /\ str[Len(str)] \in chars
    THEN RStrip(SubSeq(str, 1, Len(str) - 1), chars) ELSE str
Strip(str, chars) == RStrip(LStrip(str, chars), chars)
Whitespace == {" "}

\* str.split(sep) for a one-character sep: "a//b" gives ["a", "", "b"]
RECURSIVE Split(_, _)
Split(str, sep) ==
    IF \A i \in 1..Len(str) : str[i] # sep THEN <<str>>
    ELSE LET k == CHOOSE i \in 1..Len(str) :
                     str[i] = sep /\ \A h \in 1..(i - 1) : str[h] # sep
         IN  <<SubSeq(str, 1, k - 1)>> \o Split(SubSeq(str, k + 1, Len(str)), sep)

\* str.lower, on the letters that occur in the file names used here
LowerChar(c) ==
    CASE c = "P" -> "p" [] c = "N" -> "n" [] c = "G" -> "g" [] OTHER -> c
Lower(str) == [i \in 1..Len(str) |-> LowerChar(str[i])]

\* list[::-1]
Reverse(list) == [i \in 1..Len(list) |-> list[Len(list) + 1 - i]]

\* A slip in lines 334-336: only the host name is normalised.
NormaliseLinkHostOnly(link) ==
    Strip(IF Contains(link, S_discordapp_com)
          THEN Replace(link, S_discordapp_com, S_discord_com) ELSE link,
          Whitespace)

\* lines 332-337: the clean-up of message_link
NormaliseLink(link) ==
    LET host == IF Contains(link, S_discordapp_com)
                THEN Replace(link, S_discordapp_com, S_discord_com) ELSE link
        scheme == IF StartsWith(host, S_discord_scheme)
                  THEN Replace(Replace(host, S_discord_scheme_discord,
                                       S_https_discord_com),
                               S_discord_scheme, S_https_discord_com_slash)
                  ELSE host
    IN  Strip(scheme, Whitespace)

\* lines 340-342: channel_id and message_id, '' when there is no such part
ParseLink(link) ==
    LET parts == Split(Strip(link, {"/"}), "/")
    IN  [channel_id |-> IF Len(parts) >= 2 THEN parts[Len(parts) - 1] ELSE <<>>,
         message_id |-> IF Len(parts) >= 1 THEN parts[Len(parts)] ELSE <<>>]

\* lines 361-362
audio_exts == {<<".", "m", "p", "3">>, <<".", "w", "a", "v">>, <<".", "m", "4", "a">>,
               <<".", "a", "a", "c">>, <<".", "m", "p", "4">>}
image_exts == {<<".", "j", "p", "g">>, <<".", "j", "p", "e", "g">>, <<".", "p", "n", "g">>,
               <<".", "w", "e", "b", "p">>}

\* lines 364-365: the test of the two list comprehensions
HasExt(a, exts) == \E ext \in exts : EndsWith(Lower(a.filename), ext)

\* lines 364-368: the urls of the attachments of one kind, in fetch order
UrlsOf(attachments, exts) ==
    LET Keep(a) == HasExt(a, exts)
        full == SelectSeq(attachments, Keep)
    IN  [i \in 1..Len(full) |-> full[i].url]

\* A slip in lines 371-378: four files of mixed types are accepted.
AllOneTypeOrMixed(audios, images) == Len(audios) + Len(images) = 4

\* lines 371-378: four audio files and no image, or four images and no audio
AllOneType(audios, images) ==
    \/ Len(audios) = 4 /\ Len(images) = 0
    \/ Len(images) = 4 /\ Len(audios) = 0

\* What a call that raised leaves: no lists. requests counts the HTTP
\* requests the call made.
ExtractRaised(link, request, requests) ==
    [raised |-> TRUE, returned |-> FALSE, images |-> <<>>, audios |-> <<>>,
     link |-> link, request |-> request, requests |-> requests]

\* lines 331-391, r being the answer of requests.get (line 351)
extract_attachments(link, r) ==
    LET clean == NormaliseLink(link)
        ids == ParseLink(clean)
        request == <<ids.channel_id, ids.message_id>>
        attachments == r.attachments
        audios == UrlsOf(attachments, audio_exts)
        images == UrlsOf(attachments, image_exts)
    IN  IF ids.channel_id = <<>> \/ ids.message_id = <<>>
        THEN ExtractRaised(clean, <<>>, 0)
        ELSE IF r.raises \/ r.status_code # 200
        THEN ExtractRaised(clean, request, 1)
        ELSE IF Len(attachments) # 4
        THEN ExtractRaised(clean, request, 1)
        ELSE IF ~AllOneType(audios, images)
        THEN ExtractRaised(clean, request, 1)
        ELSE [raised |-> FALSE, returned |-> TRUE, images |-> Reverse(images),
              audios |-> Reverse(audios), link |-> clean, request |-> request,
              requests |-> 1]

\* A slip in line 318: every 2xx status counts as success.
PostSucceededAny2xx(r) == r.status_code \in 200..299

\* line 318: response.status_code == 200
PostSucceeded(r) == r.status_code = 200

\* lines 315-327, r being the answer of requests.post (line 316): an
\* exception of the request is caught at line 325
post_to_n8n_webhook(r) ==
    [raised |-> FALSE, returned |-> ~r.raises /\ PostSucceeded(r),
     images |-> <<>>, audios |-> <<>>, link |-> <<>>, request |-> <<>>,
     requests |-> 1]

\* ------------------------------------------------------- the inputs
\* File names as Discord reports them, and their kind by extension.
File_mp3 == <<"a", ".", "m", "p", "3">>
File_PNG == <<"b", ".", "P", "N", "G">>
File_txt == <<"c", ".", "t", "x", "t">>
File_mp4 == <<"d", ".", "m", "p", "4">>
File_jpeg == <<"e", ".", "j", "p", "e", "g">>
FileNames == {File_mp3, File_PNG, File_txt, File_mp4, File_jpeg}

\* data['attachments'] of a message with these file names; the url of an
\* attachment is its place in the order the API returned them.
AttachmentsOf(names) == [i \in 1..Len(names) |-> [filename |-> names[i], url |-> i]]

SeqsOf(set, n) == [1..n -> set]

AttachmentInputs ==
    {AttachmentsOf(names) :
        names \in SeqsOf(FileNames, 4)
                    \cup SeqsOf({File_mp3, File_PNG}, 0)
                    \cup SeqsOf({File_mp3, File_PNG}, 3)
                    \cup SeqsOf({File_mp3, File_txt, File_PNG}, 5)
                    \cup SeqsOf({File_mp3, File_PNG}, MaxAttachments)}

\* A message reference for (channel_id, message_id) in each of its written
\* forms; the guild is 9.
IdChars == {<<"1">>, <<"2", "3">>}
LinkPath(channel_id, message_id) ==
    <<"c", "h", "a", "n", "n", "e", "l", "s", "/", "9", "/">> \o channel_id \o <<"/">> \o message_id
LinkForms == {"discord.com", "discordapp.com", "discord://discord/", "discord://"}
LinkOf(form, channel_id, message_id) ==
    CASE form = "discord.com" ->
            <<"h", "t", "t", "p", "s", ":", "/", "/", "d", "i", "s", "c", "o", "r", "d", ".", "c", "o", "m", "/">> \o LinkPath(channel_id, message_id)
      [] form = "discordapp.com" ->
            <<"h", "t", "t", "p", "s", ":", "/", "/", "d", "i", "s", "c", "o", "r", "d", "a", "p", "p", ".", "c", "o", "m", "/">> \o LinkPath(channel_id, message_id)
      [] form = "discord://discord/" ->
            <<"d", "i", "s", "c", "o", "r", "d", ":", "/", "/", "d", "i", "s", "c", "o", "r", "d", "/">> \o LinkPath(channel_id, message_id)
      [] OTHER ->
            <<"d", "i", "s", "c", "o", "r", "d", ":", "/", "/">> \o LinkPath(channel_id, message_id)
LinkTails == {<<>>, <<"/">>, <<" ">>}
BadLinks == {<<>>, <<"a", "b", "c">>, <<"/">>}

FourAudio == AttachmentsOf(<<File_mp3, File_mp4, File_mp3, File_mp4>>)
StatusCodes == {200, 201, 204, 301, 400, 404, 500}

\* A call of _extract_attachments with a link in one of the four forms and a
\* message of four audio files
IoInitLinks ==
    /\ io_fn = "extract"
    /\ \E form \in LinkForms, c \in IdChars, m \in IdChars, tail \in LinkTails :
          /\ message_link = LinkOf(form, c, m) \o tail
          /\ link_src = [form |-> form, channel_id |-> c, message_id |-> m]
    /\ resp = [raises |-> FALSE, status_code |-> 200, attachments |-> FourAudio]

\* A call of _extract_attachments with a link that has no two parts
IoInitBadLinks ==
    /\ io_fn = "extract"
    /\ message_link \in BadLinks
    /\ link_src = NoLinkSrc
    /\ resp = [raises |-> FALSE, status_code |-> 200, attachments |-> FourAudio]

\* A call of _extract_attachments with a good link and any answer of the API
IoInitAnswers ==
    /\ io_fn = "extract"
    /\ message_link = LinkOf("discord.com", <<"1">>, <<"2", "3">>)
    /\ link_src = [form |-> "discord.com", channel_id |-> <<"1">>,
                   message_id |-> <<"2", "3">>]
    /\ \/ resp \in [raises : {FALSE}, status_code : {200, 404},
                    attachments : AttachmentInputs]
       \/ resp = [raises |-> TRUE, status_code |-> 0, attachments |-> <<>>]

\* A call of _post_to_n8n_webhook and any answer of the webhook
IoInitPost ==
    /\ io_fn = "post"
    /\ message_link = <<>>
    /\ link_src = NoLinkSrc
    /\ \/ resp \in [raises : {FALSE}, status_code : StatusCodes,
                    attachments : {<<>>}]
       \/ resp = [raises |-> TRUE, status_code |-> 0, attachments |-> <<>>]

IoInit ==
    /\ JobInit
    /\ bot_token
    /\ IdleExcept("io")
    /\ io_pc = "call"
    /\ io_ret = NoIoRet
    /\ (IoInitLinks \/ IoInitBadLinks \/ IoInitAnswers \/ IoInitPost)

CallExtractAttachments ==
    /\ io_fn = "extract"
    /\ io_pc = "call"
    /\ io_ret' = extract_attachments(message_link, resp)
    /\ io_pc' = "returned"
    /\ UNCHANGED <<io_fn, message_link, link_src, resp>>
    /\ UNCHANGED io_frame

CallPostToN8nWebhook ==
    /\ io_fn = "post"
    /\ io_pc = "call"
    /\ io_ret' = post_to_n8n_webhook(resp)
    /\ io_pc' = "returned"
    /\ UNCHANGED <<io_fn, message_link, link_src, resp>>
    /\ UNCHANGED io_frame

IoNext == CallExtractAttachments \/ CallPostToN8nWebhook

IoSpec == IoInit /\ [][IoNext]_vars

\* The kinds of the file names above, written out.
AudioFiles == {File_mp3, File_mp4}
ImageFiles == {File_PNG, File_jpeg}
CountOf(attachments, files) ==
    Cardinality({i \in 1..Len(attachments) : attachments[i].filename \in files})
ExtractReturned == io_fn = "extract" /\ io_pc = "returned"
MessageFetched ==
    link_src.form # "none" /\ ~resp.raises /\ resp.status_code = 200

\* C21: for a fetched message of 8 attachments, 4 audio files and 4 image
\* files, _extract_attachments succeeds and returns 4 images and 4 audios,
\* each list in the reverse of fetch order. (Stated as written; the code
\* breaks it.)
C21_EightAttachmentsSplit ==
    (/\ ExtractReturned
     /\ MessageFetched
     /\ Len(resp.attachments) = 8
     /\ CountOf(resp.attachments, AudioFiles) = 4
     /\ CountOf(resp.attachments, ImageFiles) = 4)
        => /\ ~io_ret.raised
           /\ io_ret.audios = Reverse(UrlsOf(resp.attachments, audio_exts))
           /\ io_ret.images = Reverse(UrlsOf(resp.attachments, image_exts))
           /\ Len(io_ret.audios) = 4
           /\ Len(io_ret.images) = 4

C23_LinkFormsEquivalent ==
    (ExtractReturned /\ link_src.form \in LinkForms) =>
        /\ io_ret.link =
              Strip(LinkOf("discord.com", link_src.channel_id,
                           link_src.message_id) \o
                       SubSeq(message_link,
                              Len(LinkOf(link_src.form, link_src.channel_id,
                                         link_src.message_id)) + 1,
                              Len(message_link)),
                    Whitespace)
        /\ io_ret.request = <<link_src.channel_id, link_src.message_id>>
        /\ io_ret.requests = 1

\* C23's case: a reference with the prefix discord:// and a two-digit message
\* id has been extracted.
C23_Witness ==
    /\ ExtractReturned
    /\ link_src.form = "discord://"
    /\ link_src.message_id = <<"2", "3">>
    /\ io_ret.request = <<link_src.channel_id, <<"2", "3">>>>
    /\ ~io_ret.raised

\* C24: a call of _post_to_n8n_webhook makes exactly one POST, returns True
\* exactly when the response status is 200, returns False for every other
\* status and when the request raises, and never raises itself.
C24_PostTrueOnlyOn200 ==
    (io_fn = "post" /\ io_pc = "returned") =>
        /\ io_ret.requests = 1
        /\ ~io_ret.raised
        /\ io_ret.returned <=> (~resp.raises /\ resp.status_code = 200)

\* C24's case: the request raised and the call returned False.
C24_Witness ==
    /\ io_fn = "post"
    /\ io_pc = "returned"
    /\ resp.raises
    /\ ~io_ret.returned
    /\ ~io_ret.raised

\* ===================================================================
\* The payloads of a wizard job (lines 207-264)
\* ===================================================================
MaxPayloadVideos == 2

\* list[index] of Python, whose first index is 0
At(list, index) == list[index + 1]

\* What _extract_attachments returns for a link, when it returns: the lists
\* of that message (lines 239 and 242).
ExtractedFrom(link) ==
    [images |-> <<link, "images">>, audios |-> <<link, "audios">>]

\* A slip in lines 210-215: image set 2 takes the links of image set 1.
ImageLinksOfSetOneOnly(job, s) == job.image_links

\* lines 210-215: image_links of the image set
ImageLinksOfSet(job, s) ==
    IF s = 1 THEN job.image_links ELSE job.second_image_links

\* lines 210-215: channel_name of the image set
ChannelOfSet(job, s) ==
    IF s = 1 THEN job.image_set_channel ELSE job.second_image_set_channel

\* lines 232-260: the payload of video index i of image set s
PayloadOf(job, s, i) ==
    LET title == At(job.titles, i)
        audio_link == At(job.audio_links, i)
        background_audio_link == At(job.background_audio_links, i)
        image_link == At(ImageLinksOfSet(job, s), i)
        audio_attachments == ExtractedFrom(audio_link)
        background_audio_url == Strip(background_audio_link, Whitespace)
        image_attachments == ExtractedFrom(image_link)
    IN  [user |-> title,
         images |-> image_attachments.images,
         audios |-> audio_attachments.audios,
         background_audio |-> background_audio_url,
         aud_speed |-> job.audio_speed,
         channel_name |-> ChannelOfSet(job, s),
         of_set |-> s, of_index |-> i]

\* The jobs looked at: lists of num_videos entries each, as app.py lets them
\* through (lines 283-307); audio_speed in tenths.
BackgroundUrls == {<<"x">>, <<" ", "y", " ">>}
WizardJobs ==
    UNION {[num_videos : {n},
            titles : SeqsOf({"t", "u"}, n),
            audio_links : SeqsOf({"a", "b"}, n),
            background_audio_links : SeqsOf(BackgroundUrls, n),
            audio_speed : {10, 15},
            image_links : SeqsOf({"i", "j"}, n),
            image_set_channel : {"first"},
            use_second_image_set : {TRUE},
            second_image_links : SeqsOf({"k", "l"}, n),
            second_image_set_channel : {"second"}]
           \cup
           [num_videos : {n},
            titles : SeqsOf({"t", "u"}, n),
            audio_links : SeqsOf({"a", "b"}, n),
            background_audio_links : SeqsOf(BackgroundUrls, n),
            audio_speed : {10, 15},
            image_links : SeqsOf({"i", "j"}, n),
            image_set_channel : {"first"},
            use_second_image_set : {FALSE},
            second_image_links : {<<>>},
            second_image_set_channel : {""}] : n \in 1..MaxPayloadVideos}

\* _process_wizard_job is about to call _process_image_set(job_id, job_data, 1)
PayloadInit ==
    /\ JobInit
    /\ bot_token
    /\ IdleExcept("payload")
    /\ wizard_job \in WizardJobs
    /\ image_set_number = 1
    /\ item_index = 0
    /\ n8n_payload = NoPayload

\* lines 217-264 for one video: the payload is built and dispatched, unless
\* an extraction raised (line 243)
BuildPayload ==
    /\ image_set_number \in {1, 2}
    /\ item_index < wizard_job.num_videos
    /\ \E extracted \in BOOLEAN :
          n8n_payload' = IF extracted
                         THEN PayloadOf(wizard_job, image_set_number, item_index)
                         ELSE n8n_payload
    /\ item_index' = item_index + 1
    /\ UNCHANGED <<wizard_job, image_set_number>>
    /\ UNCHANGED payload_frame

\* lines 177-182: the loop of an image set has run out
NextImageSet ==
    /\ image_set_number \in {1, 2}
    /\ item_index = wizard_job.num_videos
    /\ image_set_number' = IF image_set_number = 1 /\ wizard_job.use_second_image_set
                           THEN 2 ELSE 0
    /\ item_index' = 0
    /\ UNCHANGED <<wizard_job, n8n_payload>>
    /\ UNCHANGED payload_frame

PayloadNext == BuildPayload \/ NextImageSet

PayloadSpec == PayloadInit /\ [][PayloadNext]_vars

\* u is link without the spaces around it.
WithoutSurroundingSpaces(u, link) ==
    \E a, b \in 0..Len(link) :
        /\ a + b <= Len(link)
        /\ u = SubSeq(link, a + 1, Len(link) - b)
        /\ \A k \in 1..a : link[k] = " "
        /\ \A k \in (Len(link) - b + 1)..Len(link) : link[k] = " "
        /\ u # <<>> => u[1] # " " /\ u[Len(u)] # " "

\* The fields of a payload that both readings of C27 agree on.
PayloadFieldsButBackground ==
    LET s == n8n_payload.of_set
        i == n8n_payload.of_index
        links == IF s = 1 THEN wizard_job.image_links
                 ELSE wizard_job.second_image_links
    IN  /\ s \in {1, 2}
        /\ s = 2 => wizard_job.use_second_image_set
        /\ i \in 0..(wizard_job.num_videos - 1)
        /\ n8n_payload.user = wizard_job.titles[i + 1]
        /\ n8n_payload.audios = <<wizard_job.audio_links[i + 1], "audios">>
        /\ n8n_payload.aud_speed = wizard_job.audio_speed
        /\ n8n_payload.images = <<links[i + 1], "images">>
        /\ n8n_payload.channel_name =
              (IF s = 1 THEN wizard_job.image_set_channel
               ELSE wizard_job.second_image_set_channel)

MaxClock == 4
MaxSeconds == 2
RequestThreads == {1, 2}

\* datetime.isoformat and datetime.fromisoformat: the instant as a string,
\* and back
isoformat(t) == <<"iso", t>>
fromisoformat(str) == str[2]

NoResponse == [code |-> 0]

\* A slip in line 1776: the running lease is never looked at.
LeaseHeldNever(state, t) == FALSE

\* lines 1776-1779 (and 1752-1755 negated): a lease is recorded and its end
\* is still ahead of t
LeaseHeld(state, t) ==
    /\ state.active
    /\ state.ends_at # "None"
    /\ t < fromisoformat(state.ends_at)

LeaseInit ==
    /\ JobInit
    /\ bot_token
    /\ IdleExcept("lease")
    /\ LONGFORM_JOB_STATE = NoLease
    /\ now = 0
    /\ lease_pc = [t \in RequestThreads |-> "idle"]
    /\ lease_req = [t \in RequestThreads |-> 0]
    /\ lease_ret = [t \in RequestThreads |-> NoResponse]
    /\ grants = <<>>

\* Time passes.
Tick ==
    /\ now < MaxClock
    /\ now' = now + 1
    /\ UNCHANGED <<LONGFORM_JOB_STATE, lease_pc, lease_req, lease_ret, grants>>
    /\ UNCHANGED lease_frame

\* A POST /api/longform/start-job reaches a request thread (lines 1768-1769).
ReceiveStart(t) ==
    /\ lease_pc[t] = "idle"
    /\ \E seconds \in (-1)..MaxSeconds :
          lease_req' = [lease_req EXCEPT ![t] = seconds]
    /\ lease_pc' = [lease_pc EXCEPT ![t] = "start"]
    /\ lease_ret' = [lease_ret EXCEPT ![t] = NoResponse]
    /\ UNCHANGED <<LONGFORM_JOB_STATE, now, grants>>
    /\ UNCHANGED lease_frame

\* A GET /api/longform/job-status reaches a request thread.
ReceiveStatus(t) ==
    /\ lease_pc[t] = "idle"
    /\ lease_pc' = [lease_pc EXCEPT ![t] = "status"]
    /\ lease_ret' = [lease_ret EXCEPT ![t] = NoResponse]
    /\ UNCHANGED <<LONGFORM_JOB_STATE, now, lease_req, grants>>
    /\ UNCHANGED lease_frame

\* lines 1771-1772: seconds <= 0 is answered 400 before the lock is taken
StartRejectsSeconds(t) ==
    /\ lease_pc[t] = "start"
    /\ lease_req[t] <= 0
    /\ lease_ret' = [lease_ret EXCEPT ![t] = [code |-> 400, success |-> FALSE]]
    /\ lease_pc' = [lease_pc EXCEPT ![t] = "done"]
    /\ UNCHANGED <<LONGFORM_JOB_STATE, now, lease_req, grants>>
    /\ UNCHANGED lease_frame

\* lines 1773-1779: under _job_lock, a lease still held is answered 409
StartRejectsHeld(t) ==
    /\ lease_pc[t] = "start"
    /\ lease_req[t] > 0
    /\ LeaseHeld(LONGFORM_JOB_STATE, now)
    /\ lease_ret' = [lease_ret EXCEPT ![t] =
          [code |-> 409, success |-> FALSE, ends_at |-> LONGFORM_JOB_STATE.ends_at]]
    /\ lease_pc' = [lease_pc EXCEPT ![t] = "done"]
    /\ UNCHANGED <<LONGFORM_JOB_STATE, now, lease_req, grants>>
    /\ UNCHANGED lease_frame

\* lines 1773-1786: under _job_lock, no lease is held and a new one is
\* recorded; the clock may move between the two readings of utcnow()
StartGrants(t) ==
    /\ lease_pc[t] = "start"
    /\ lease_req[t] > 0
    /\ ~LeaseHeld(LONGFORM_JOB_STATE, now)
    /\ \E later \in 0..1 :
          /\ now + later <= MaxClock
          /\ now' = now + later
          /\ LONGFORM_JOB_STATE' =
                [active |-> TRUE,
                 ends_at |-> isoformat(now + later + lease_req[t]),
                 reason |-> "longform"]
          /\ grants' = Append(grants, <<now + later, now + later + lease_req[t]>>)
    /\ lease_pc' = [lease_pc EXCEPT ![t] = "respond"]
    /\ UNCHANGED <<lease_req, lease_ret>>
    /\ UNCHANGED lease_frame

\* line 1787: the answer reads ends_at again, the lock released
StartResponds(t) ==
    /\ lease_pc[t] = "respond"
    /\ lease_ret' = [lease_ret EXCEPT ![t] =
          [code |-> 200, success |-> TRUE, ends_at |-> LONGFORM_JOB_STATE.ends_at]]
    /\ lease_pc' = [lease_pc EXCEPT ![t] = "done"]
    /\ UNCHANGED <<LONGFORM_JOB_STATE, now, lease_req, grants>>
    /\ UNCHANGED lease_frame

\* lines 1746-1761: under _job_lock, a lease whose end has come is cleared,
\* and the state is reported
longform_job_status(t) ==
    /\ lease_pc[t] = "status"
    /\ LET expired == /\ LONGFORM_JOB_STATE.active
                      /\ LONGFORM_JOB_STATE.ends_at # "None"
                      /\ now >= fromisoformat(LONGFORM_JOB_STATE.ends_at)
           state == IF expired THEN NoLease ELSE LONGFORM_JOB_STATE
       IN  /\ LONGFORM_JOB_STATE' = state
           /\ lease_ret' = [lease_ret EXCEPT ![t] =
                 [code |-> 200, success |-> TRUE, active |-> state.active,
                  ends_at |-> state.ends_at, reason |-> state.reason]]
    /\ lease_pc' = [lease_pc EXCEPT ![t] = "done"]
    /\ UNCHANGED <<now, lease_req, grants>>
    /\ UNCHANGED lease_frame

\* The response is sent and the thread is free again.
RequestDone(t) ==
    /\ lease_pc[t] = "done"
    /\ lease_pc' = [lease_pc EXCEPT ![t] = "idle"]
    /\ UNCHANGED <<LONGFORM_JOB_STATE, now, lease_req, lease_ret, grants>>
    /\ UNCHANGED lease_frame

longform_start_job(t) ==
    \/ StartRejectsSeconds(t)
    \/ StartRejectsHeld(t)
    \/ StartGrants(t)
    \/ StartResponds(t)

LeaseNext ==
    \/ Tick
    \/ \E t \in RequestThreads :
          \/ ReceiveStart(t)
          \/ ReceiveStatus(t)
          \/ longform_start_job(t)
          \/ longform_job_status(t)
          \/ RequestDone(t)

LeaseSpec == LeaseInit /\ [][LeaseNext]_vars

\* The lease recorded last is running at instant t.
LeaseRunning(t) ==
    /\ grants # <<>>
    /\ LONGFORM_JOB_STATE.active
    /\ LONGFORM_JOB_STATE.ends_at = <<"iso", grants[Len(grants)][2]>>
    /\ t < grants[Len(grants)][2]

\* C30: the long-form lease has at most one holder: a lease is granted only
\* once the one before it has ended; while a lease runs, a start-job request
\* is refused (409) and leaves LONGFORM_JOB_STATE as it is; at or after
\* ends_at, job-status reports active = false and start-job is granted until
\* now + seconds; seconds <= 0 is refused and changes nothing.
C30_LeaseHasOneHolder ==
    /\ [](\A k \in 1..Len(grants) :
             /\ grants[k][1] < grants[k][2]
             /\ k > 1 => grants[k - 1][2] <= grants[k][1])
    /\ [][\A t \in RequestThreads :
            /\ (lease_pc[t] = "start" /\ lease_pc'[t] # "start") =>
                  /\ lease_req[t] <= 0 =>
                        /\ lease_pc'[t] = "done"
                        /\ lease_ret'[t].code = 400
                        /\ UNCHANGED <<LONGFORM_JOB_STATE, grants>>
                  /\ (lease_req[t] > 0 /\ LeaseRunning(now)) =>
                        /\ lease_pc'[t] = "done"
                        /\ lease_ret'[t].code = 409
                        /\ UNCHANGED <<LONGFORM_JOB_STATE, grants>>
                  /\ (lease_req[t] > 0 /\ ~LeaseRunning(now)) =>
                        /\ lease_pc'[t] = "respond"
                        /\ Len(grants') = Len(grants) + 1
                        /\ LONGFORM_JOB_STATE'.active
                        /\ LONGFORM_JOB_STATE'.ends_at = <<"iso", now' + lease_req[t]>>
            /\ (lease_pc[t] = "respond" /\ lease_pc'[t] = "done") =>
                  lease_ret'[t].success
            /\ (lease_pc[t] = "status" /\ lease_pc'[t] = "done") =>
                  /\ lease_ret'[t].active = LeaseRunning(now)
                  /\ LONGFORM_JOB_STATE'.active = LeaseRunning(now)
         ]_vars

\* C30's case: a second lease was granted after the first had ended, and
\* the other thread's start-job was refused with 409 while it runs.
C30_Witness ==
    /\ Len(grants) = 2
    /\ LeaseRunning(now)
    /\ \E t \in RequestThreads :
          /\ lease_pc[t] = "done"
          /\ lease_ret[t].code = 409
          /\ lease_ret[t].ends_at = LONGFORM_JOB_STATE.ends_at

\* ===================================================================
\* The API quota of a client (auth_manager.py lines 262-315,
\* youtube_service.py lines 47-59, 110-168, 245-257, 287-299)
\* ===================================================================
MaxQuotaCalls == 3
default_daily_quota == 10000
upload_cost == 1600
thumbnail_cost == 50
list_cost == 1

QuotaThreads == {1, 2}
Operations == {"channels.list", "videos.insert", "videos.list", "thumbnails.set"}

\* the cost each YouTubeServiceV2 call passes to can_make_request and
\* update_quota
CostOf(operation) ==
    CASE operation = "videos.insert" -> upload_cost
      [] operation = "thumbnails.set" -> thumbnail_cost
      [] OTHER -> list_cost

\* The file after uploads, thumbnails and listings made one after another
\* on this day.
QuotaFileAfter(uploads, thumbnails, listings) ==
    [exists |-> TRUE,
     daily_quota |-> default_daily_quota,
     used_quota |-> uploads * upload_cost + thumbnails * thumbnail_cost
                      + listings * list_cost,
     operations |-> [o \in Operations |->
                       CASE o = "videos.insert" -> uploads * upload_cost
                         [] o = "thumbnails.set" -> thumbnails * thumbnail_cost
                         [] o = "channels.list" -> listings * list_cost
                         [] OTHER -> 0]]

\* lines 266-285, the day unchanged (line 280 false): the file's content,
\* or the default when there is no file
check_quota(file) ==
    IF file.exists THEN file
    ELSE [exists |-> TRUE, daily_quota |-> default_daily_quota,
          used_quota |-> 0, operations |-> [o \in Operations |-> 0]]

\* lines 312-315
can_make_request(file, cost) ==
    check_quota(file).used_quota + cost <= check_quota(file).daily_quota

\* The files looked at: none yet, and three that calls made one after
\* another leave behind, with room for one more upload, one more thumbnail,
\* one more listing.
QuotaFiles ==
    {NoFile, QuotaFileAfter(5, 8, 0), QuotaFileAfter(6, 7, 0),
     QuotaFileAfter(6, 7, 49)}

QuotaInit ==
    /\ JobInit
    /\ bot_token
    /\ IdleExcept("quota")
    /\ quota_file \in QuotaFiles
    /\ quota_pc = [t \in QuotaThreads |-> "idle"]
    /\ quota_op = [t \in QuotaThreads |-> "channels.list"]
    /\ quota_data = [t \in QuotaThreads |-> NoFile]
    /\ quota_ret = [t \in QuotaThreads |-> "none"]
    /\ quota_calls = 0

\* A request thread enters upload_video, get_channels_for_client,
\* get_video_info or set_thumbnail.
QuotaCall(t) ==
    /\ quota_pc[t] = "idle"
    /\ quota_calls < MaxQuotaCalls
    /\ quota_calls' = quota_calls + 1
    /\ \E o \in Operations : quota_op' = [quota_op EXCEPT ![t] = o]
    /\ quota_pc' = [quota_pc EXCEPT ![t] = "check"]
    /\ quota_ret' = [quota_ret EXCEPT ![t] = "none"]
    /\ UNCHANGED <<quota_file, quota_data>>
    /\ UNCHANGED quota_frame

\* youtube_service.py lines 51-52, 112-113, 246-247, 288-289
QuotaCheck(t) ==
    /\ quota_pc[t] = "check"
    /\ IF can_make_request(quota_file, CostOf(quota_op[t]))
       THEN /\ quota_pc' = [quota_pc EXCEPT ![t] = "request"]
            /\ UNCHANGED quota_ret
       ELSE /\ quota_pc' = [quota_pc EXCEPT ![t] = "idle"]
            /\ quota_ret' = [quota_ret EXCEPT ![t] = "API quota exceeded for this client"]
    /\ UNCHANGED <<quota_file, quota_op, quota_data, quota_calls>>
    /\ UNCHANGED quota_frame

\* The request to YouTube (lines 54, 164, 251-254, 295-298): it succeeds, or
\* it fails and the call returns with nothing charged
QuotaRequest(t) ==
    /\ quota_pc[t] = "request"
    /\ \E succeeded \in BOOLEAN :
          IF succeeded
          THEN /\ quota_pc' = [quota_pc EXCEPT ![t] = "update"]
               /\ UNCHANGED quota_ret
          ELSE /\ quota_pc' = [quota_pc EXCEPT ![t] = "idle"]
               /\ quota_ret' = [quota_ret EXCEPT ![t] = "failed"]
    /\ UNCHANGED <<quota_file, quota_op, quota_data, quota_calls>>
    /\ UNCHANGED quota_frame

\* auth_manager.py lines 298-303: update_quota reads the file and adds the
\* cost to its own copy
UpdateQuotaRead(t) ==
    /\ quota_pc[t] = "update"
    /\ LET data == check_quota(quota_file)
           cost == CostOf(quota_op[t])
       IN  quota_data' = [quota_data EXCEPT ![t] =
              [data EXCEPT !.used_quota = @ + cost,
                           !.operations[quota_op[t]] = @ + cost]]
    /\ quota_pc' = [quota_pc EXCEPT ![t] = "write"]
    /\ UNCHANGED <<quota_file, quota_op, quota_ret, quota_calls>>
    /\ UNCHANGED quota_frame

\* auth_manager.py lines 305-308: update_quota writes its copy to the file
UpdateQuotaWrite(t) ==
    /\ quota_pc[t] = "write"
    /\ quota_file' = quota_data[t]
    /\ quota_data' = [quota_data EXCEPT ![t] = NoFile]
    /\ quota_pc' = [quota_pc EXCEPT ![t] = "idle"]
    /\ quota_ret' = [quota_ret EXCEPT ![t] = "Success"]
    /\ UNCHANGED <<quota_op, quota_calls>>
    /\ UNCHANGED quota_frame

update_quota(t) == UpdateQuotaRead(t) \/ UpdateQuotaWrite(t)

QuotaNext ==
    \E t \in QuotaThreads :
        \/ QuotaCall(t)
        \/ QuotaCheck(t)
        \/ QuotaRequest(t)
        \/ update_quota(t)

QuotaSpec == QuotaInit /\ [][QuotaNext]_vars

\* C29: after any calls of upload_video, get_channels_for_client,
\* get_video_info and set_thumbnail within one day, the recorded used_quota
\* does not exceed daily_quota.
C29_UsedQuotaWithinDaily ==
    quota_file.exists => quota_file.used_quota <= quota_file.daily_quota

\* ===================================================================
\* job_lock (discord_bulk_service.py lines 25, 38-75, 166-311, 393-414;
\* app.py lines 143-177 and 1826-1851)
\* ===================================================================
MaxLockVideos == 1
MaxSignals == 1
\* the atexit registrations that call _cleanup_on_exit:
\* discord_bulk_service.py line 31, app.py lines 143 and 177
ExitHooks == 3

\* The accesses of one kind to some of the job's mutable fields.
Acc(by, kind, fields) == {[by |-> by, kind |-> kind, field |-> f] : f \in fields}

\* The history of unlocked accesses, after thread makes these accesses.
Logged(thread, accesses) ==
    lk_unlocked \cup (IF job_lock = thread THEN {} ELSE accesses)

\* Where the worker stands before a `with self.job_lock:` statement with a
\* wrong extra place: the webhook POST of line 263.
WorkerLockedSectionsWithPost ==
    {"start", "mark_top", "chk", "extract_failed", "update", "mark_wait",
     "item_except", "set_except", "finish", "post"}

\* Where the worker stands before a `with self.job_lock:` statement:
\* lines 169, 222, 227, 246, 266, 292, 301, 309, 185
WorkerLockedSections ==
    {"start", "mark_top", "chk", "extract_failed", "update", "mark_wait",
     "item_except", "set_except", "finish"}

\* Where the worker is inside a call that waits on the network or the clock:
\* lines 239-242, 263, 296
WorkerInIO == lk_worker.pc \in {"extract", "post", "sleep"}

\* The innermost _cleanup_on_exit call of the main thread.
TopFrame == lk_main.stack[Len(lk_main.stack)]
TopPc == IF lk_main.stack = <<>> THEN "none" ELSE TopFrame.pc
WithTopPc(p) == [lk_main EXCEPT !.stack[Len(lk_main.stack)].pc = p]
Called(via) == [pc |-> "set_event", via |-> via]

\* What create_wizard_bulk_job stores (lines 121-149).
LockJob(num_videos, num_videos_is_int, use_second_image_set, second_len, interval_minutes) ==
    [num_videos |-> num_videos,
     num_videos_is_int |-> num_videos_is_int,
     use_second_image_set |-> use_second_image_set,
     second_len |-> second_len,
     interval_minutes |-> interval_minutes,
     total_items |-> TotalJobs(num_videos, use_second_image_set),
     completed |-> 0, failed |-> 0, status |-> "pending",
     next_post_time |-> "None", last_post_time |-> "None",
     errors |-> <<>>]

LockJobs ==
    {LockJob(n, is_int, second, second_len, interval) :
        n \in 1..MaxLockVideos, is_int \in BOOLEAN, second \in BOOLEAN,
        second_len \in 0..MaxLockVideos, interval \in 0..MaxInterval}

\* create_wizard_bulk_job has returned (lines 148-158): the job is stored and
\* its worker started; the server runs with the signal handler of
\* discord_bulk_service.py line 33 or the one of app.py line 1846.
LockInit ==
    /\ JobInit
    /\ bot_token
    /\ IdleExcept("lock")
    /\ job_lock = "none"
    /\ lk_stored = TRUE
    /\ lk_job \in {d \in LockJobs :
                     /\ ~d.use_second_image_set => d.second_len = 0
                     /\ ~d.num_videos_is_int => d.interval_minutes = 0}
    /\ lk_event = FALSE
    /\ lk_tracked = TRUE
    /\ lk_worker = [pc |-> "start", set_no |-> 0, video_index |-> 0,
                    wait_elapsed |-> 0, success |-> FALSE]
    /\ lk_request = "idle"
    /\ \E handler \in {"_signal_handler", "signal_handler"} :
          lk_main = [phase |-> "serving", hooks |-> 0, signals |-> 0,
                     handler |-> handler, stack |-> <<>>]
    /\ lk_unlocked = {}

\* ------------------------------------------------------- the worker
\* Leaving _process_image_set (lines 178-185).
LkReturnFromSet ==
    IF lk_worker.set_no = 1 /\ lk_job.use_second_image_set
    THEN [lk_worker EXCEPT !.pc = "for", !.set_no = 2, !.video_index = 0,
                           !.wait_elapsed = 0]
    ELSE [lk_worker EXCEPT !.pc = "finish", !.video_index = 0,
                           !.wait_elapsed = 0]

\* `continue`, or the end of the loop body.
LkNextIteration ==
    [lk_worker EXCEPT !.pc = "for", !.video_index = @ + 1, !.wait_elapsed = 0]

\* `with self.job_lock:` entered by the worker
WorkerAcquire ==
    /\ lk_worker.pc \in WorkerLockedSections
    /\ job_lock = "none"
    /\ job_lock' = "worker"
    /\ UNCHANGED <<lk_stored, lk_job, lk_event, lk_tracked, lk_worker,
                   lk_request, lk_main, lk_unlocked>>
    /\ UNCHANGED lock_frame

\* lines 169-173, and the lock released
LkWorkerStart ==
    /\ lk_worker.pc = "start"
    /\ job_lock = "worker"
    /\ IF lk_stored
       THEN /\ lk_job' = [lk_job EXCEPT !.status = "running"]
            /\ lk_worker' = [lk_worker EXCEPT !.pc = "for", !.set_no = 1]
            /\ lk_unlocked' = Logged("worker", Acc("worker", "write", {"status"}))
       ELSE /\ lk_worker' = [lk_worker EXCEPT !.pc = "finally"]
            /\ UNCHANGED <<lk_job, lk_unlocked>>
    /\ job_lock' = "none"
    /\ UNCHANGED <<lk_stored, lk_event, lk_tracked, lk_request, lk_main>>
    /\ UNCHANGED lock_frame

\* lines 217-220, no lock held
LkLoopTop ==
    /\ lk_worker.pc = "for"
    /\ lk_worker' =
          IF ~lk_job.num_videos_is_int
          THEN [lk_worker EXCEPT !.pc = "set_except"]
          ELSE IF lk_worker.video_index >= lk_job.num_videos
          THEN LkReturnFromSet
          ELSE [lk_worker EXCEPT !.pc = IF lk_event THEN "mark_top" ELSE "chk"]
    /\ UNCHANGED <<job_lock, lk_stored, lk_job, lk_event, lk_tracked,
                   lk_request, lk_main, lk_unlocked>>
    /\ UNCHANGED lock_frame

\* lines 222-225 and 292-295, and the lock released
LkMarkCancelled ==
    /\ lk_worker.pc \in {"mark_top", "mark_wait"}
    /\ job_lock = "worker"
    /\ IF lk_stored
       THEN /\ lk_job' = [lk_job EXCEPT !.status = "cancelled"]
            /\ lk_unlocked' = Logged("worker", Acc("worker", "write", {"status"}))
       ELSE UNCHANGED <<lk_job, lk_unlocked>>
    /\ lk_worker' = LkReturnFromSet
    /\ job_lock' = "none"
    /\ UNCHANGED <<lk_stored, lk_event, lk_tracked, lk_request, lk_main>>
    /\ UNCHANGED lock_frame

\* lines 227-235: the check under the lock, the lock released, then the
\* reads of the job's lists
LkCheckCancelled ==
    /\ lk_worker.pc = "chk"
    /\ job_lock = "worker"
    /\ lk_worker' =
          IF ~lk_stored \/ lk_job.status = "cancelled"
          THEN LkReturnFromSet
          ELSE IF lk_worker.set_no = 1 \/ lk_worker.video_index < lk_job.second_len
          THEN [lk_worker EXCEPT !.pc = "extract"]
          ELSE [lk_worker EXCEPT !.pc = "item_except"]
    /\ lk_unlocked' = IF lk_stored
                      THEN Logged("worker", Acc("worker", "read", {"status"}))
                      ELSE lk_unlocked
    /\ job_lock' = "none"
    /\ UNCHANGED <<lk_stored, lk_job, lk_event, lk_tracked, lk_request, lk_main>>
    /\ UNCHANGED lock_frame

\* lines 239-242: the two calls of _extract_attachments return, or one raises
LkExtract ==
    /\ lk_worker.pc = "extract"
    /\ \E ok \in BOOLEAN :
          lk_worker' = [lk_worker EXCEPT !.pc = IF ok THEN "post"
                                                ELSE "extract_failed"]
    /\ UNCHANGED <<job_lock, lk_stored, lk_job, lk_event, lk_tracked,
                   lk_request, lk_main, lk_unlocked>>
    /\ UNCHANGED lock_frame

\* lines 246-250, and the lock released
LkExtractFailed ==
    /\ lk_worker.pc = "extract_failed"
    /\ job_lock = "worker"
    /\ IF lk_stored
       THEN /\ lk_job' = RecordExtractFailure(lk_job)
            /\ lk_unlocked' = Logged("worker",
                  Acc("worker", "read", {"failed", "errors"})
                  \cup Acc("worker", "write", {"failed", "errors"}))
       ELSE UNCHANGED <<lk_job, lk_unlocked>>
    /\ lk_worker' = LkNextIteration
    /\ job_lock' = "none"
    /\ UNCHANGED <<lk_stored, lk_event, lk_tracked, lk_request, lk_main>>
    /\ UNCHANGED lock_frame

\* lines 263-264: _post_to_n8n_webhook returns True or False
LkPost ==
    /\ lk_worker.pc = "post"
    /\ \E ok \in BOOLEAN :
          lk_worker' = [lk_worker EXCEPT !.pc = "update", !.success = ok]
    /\ UNCHANGED <<job_lock, lk_stored, lk_job, lk_event, lk_tracked,
                   lk_request, lk_main, lk_unlocked>>
    /\ UNCHANGED lock_frame

\* lines 266-279, and the lock released
LkUpdateProgress ==
    /\ lk_worker.pc = "update"
    /\ job_lock = "worker"
    /\ IF lk_stored
       THEN /\ lk_job' = RecordDispatch(lk_job, lk_worker.success)
            /\ lk_unlocked' = Logged("worker",
                  Acc("worker", "read", {"completed", "failed", "errors"})
                  \cup Acc("worker", "write",
                           {"completed", "failed", "errors", "last_post_time",
                            "next_post_time"}))
       ELSE UNCHANGED <<lk_job, lk_unlocked>>
    /\ lk_worker' = [lk_worker EXCEPT !.pc = "read_completed", !.success = FALSE]
    /\ job_lock' = "none"
    /\ UNCHANGED <<lk_stored, lk_event, lk_tracked, lk_request, lk_main>>
    /\ UNCHANGED lock_frame

\* lines 284-289: job_data['completed'] is read again after the with
\* statement of line 266 has ended
LkReadCompleted ==
    /\ lk_worker.pc = "read_completed"
    /\ lk_unlocked' = Logged("worker", Acc("worker", "read", {"completed"}))
    /\ lk_worker' = IF NotLastItem(lk_job) /\ WaitTimeSeconds(lk_job) > 0
                    THEN [lk_worker EXCEPT !.pc = "wait", !.wait_elapsed = 0]
                    ELSE LkNextIteration
    /\ UNCHANGED <<job_lock, lk_stored, lk_job, lk_event, lk_tracked,
                   lk_request, lk_main>>
    /\ UNCHANGED lock_frame

\* line 290
LkWaitCheck ==
    /\ lk_worker.pc = "wait"
    /\ lk_worker' = [lk_worker EXCEPT !.pc = IF lk_event THEN "mark_wait"
                                             ELSE "sleep"]
    /\ UNCHANGED <<job_lock, lk_stored, lk_job, lk_event, lk_tracked,
                   lk_request, lk_main, lk_unlocked>>
    /\ UNCHANGED lock_frame

\* line 296: time.sleep returns
LkSleepSlice ==
    /\ lk_worker.pc = "sleep"
    /\ lk_worker' =
          IF lk_worker.wait_elapsed + chunk_size < WaitTimeSeconds(lk_job)
          THEN [lk_worker EXCEPT !.pc = "wait", !.wait_elapsed = @ + chunk_size]
          ELSE LkNextIteration
    /\ UNCHANGED <<job_lock, lk_stored, lk_job, lk_event, lk_tracked,
                   lk_request, lk_main, lk_unlocked>>
    /\ UNCHANGED lock_frame

\* lines 298-304, and the lock released
LkItemException ==
    /\ lk_worker.pc = "item_except"
    /\ job_lock = "worker"
    /\ IF lk_stored
       THEN /\ lk_job' = RecordItemError(lk_job)
            /\ lk_unlocked' = Logged("worker",
                  Acc("worker", "read", {"failed", "errors"})
                  \cup Acc("worker", "write", {"failed", "errors"}))
       ELSE UNCHANGED <<lk_job, lk_unlocked>>
    /\ lk_worker' = LkNextIteration
    /\ job_lock' = "none"
    /\ UNCHANGED <<lk_stored, lk_event, lk_tracked, lk_request, lk_main>>
    /\ UNCHANGED lock_frame

\* lines 306-311, and the lock released
LkSetException ==
    /\ lk_worker.pc = "set_except"
    /\ job_lock = "worker"
    /\ IF lk_stored
       THEN /\ lk_job' = RecordSetError(lk_job)
            /\ lk_unlocked' = Logged("worker",
                  Acc("worker", "read", {"errors"})
                  \cup Acc("worker", "write", {"errors"}))
       ELSE UNCHANGED <<lk_job, lk_unlocked>>
    /\ lk_worker' = LkReturnFromSet
    /\ job_lock' = "none"
    /\ UNCHANGED <<lk_stored, lk_event, lk_tracked, lk_request, lk_main>>
    /\ UNCHANGED lock_frame

\* lines 185-188, and the lock released
LkFinishJob ==
    /\ lk_worker.pc = "finish"
    /\ job_lock = "worker"
    /\ IF lk_stored
       THEN /\ lk_job' = MarkCompleted(lk_job)
            /\ lk_unlocked' = Logged("worker",
                  Acc("worker", "write", {"status", "next_post_time"}))
       ELSE UNCHANGED <<lk_job, lk_unlocked>>
    /\ lk_worker' = [lk_worker EXCEPT !.pc = "finally"]
    /\ job_lock' = "none"
    /\ UNCHANGED <<lk_stored, lk_event, lk_tracked, lk_request, lk_main>>
    /\ UNCHANGED lock_frame

\* lines 198-202
LkWorkerFinally ==
    /\ lk_worker.pc = "finally"
    /\ lk_tracked' = FALSE
    /\ lk_worker' = [lk_worker EXCEPT !.pc = "done", !.set_no = 0]
    /\ UNCHANGED <<job_lock, lk_stored, lk_job, lk_event, lk_request, lk_main,
                   lk_unlocked>>
    /\ UNCHANGED lock_frame

\* ------------------------------------------------------- the request thread
ServiceCalls == {"cancel_job", "get_job_status", "get_all_jobs"}

\* A route of app.py calls the service on a request thread.
RequestCall ==
    /\ lk_request = "idle"
    /\ \E op \in ServiceCalls : lk_request' = op
    /\ UNCHANGED <<job_lock, lk_stored, lk_job, lk_event, lk_tracked,
                   lk_worker, lk_main, lk_unlocked>>
    /\ UNCHANGED lock_frame

\* lines 395, 400, 413: `with self.job_lock:` entered
RequestAcquire ==
    /\ lk_request \in ServiceCalls
    /\ job_lock = "none"
    /\ job_lock' = "request"
    /\ UNCHANGED <<lk_stored, lk_job, lk_event, lk_tracked, lk_worker,
                   lk_request, lk_main, lk_unlocked>>
    /\ UNCHANGED lock_frame

\* lines 400-409, and the lock released; what is returned is left out
LkCancelJob ==
    /\ lk_request = "cancel_job"
    /\ job_lock = "request"
    /\ IF ~lk_stored
       THEN UNCHANGED <<lk_job, lk_unlocked>>
       ELSE IF lk_job.status \in Terminal
       THEN /\ lk_unlocked' = Logged("request", Acc("cancel_job", "read", {"status"}))
            /\ UNCHANGED lk_job
       ELSE /\ lk_job' = [lk_job EXCEPT !.status = "cancelled"]
            /\ lk_unlocked' = Logged("request",
                  Acc("cancel_job", "read", {"status"})
                  \cup Acc("cancel_job", "write", {"status"}))
    /\ lk_request' = "idle"
    /\ job_lock' = "none"
    /\ UNCHANGED <<lk_stored, lk_event, lk_tracked, lk_worker, lk_main>>
    /\ UNCHANGED lock_frame

\* lines 395-396 and 413-414: the dictionary is looked up or copied, and the
\* lock released
LkReadJobs ==
    /\ lk_request \in {"get_job_status", "get_all_jobs"}
    /\ job_lock = "request"
    /\ lk_request' = "idle"
    /\ job_lock' = "none"
    /\ UNCHANGED <<lk_stored, lk_job, lk_event, lk_tracked, lk_worker, lk_main,
                   lk_unlocked>>
    /\ UNCHANGED lock_frame

\* ------------------------------------------------------- the main thread
\* SIGINT or SIGTERM is delivered: Python runs the handler on the main
\* thread, on top of whatever the main thread is doing, and the handler calls
\* _cleanup_on_exit (discord_bulk_service.py line 41, app.py line 1834)
SignalArrives ==
    /\ lk_main.phase # "exited"
    /\ lk_main.signals < MaxSignals
    /\ lk_main' = [lk_main EXCEPT !.signals = @ + 1,
                                  !.stack = Append(@, Called("signal"))]
    /\ UNCHANGED <<job_lock, lk_stored, lk_job, lk_event, lk_tracked,
                   lk_worker, lk_request, lk_unlocked>>
    /\ UNCHANGED lock_frame

\* app.run returns and the interpreter starts its atexit callbacks.
ServerStops ==
    /\ lk_main.phase = "serving"
    /\ lk_main.stack = <<>>
    /\ lk_main' = [lk_main EXCEPT !.phase = "exiting", !.hooks = ExitHooks]
    /\ UNCHANGED <<job_lock, lk_stored, lk_job, lk_event, lk_tracked,
                   lk_worker, lk_request, lk_unlocked>>
    /\ UNCHANGED lock_frame

\* The next atexit callback calls _cleanup_on_exit; after the last one the
\* process ends.
AtExitCallback ==
    /\ lk_main.phase = "exiting"
    /\ lk_main.stack = <<>>
    /\ lk_main' = IF lk_main.hooks > 0
                  THEN [lk_main EXCEPT !.hooks = @ - 1,
                                       !.stack = <<Called("atexit")>>]
                  ELSE [lk_main EXCEPT !.phase = "exited"]
    /\ UNCHANGED <<job_lock, lk_stored, lk_job, lk_event, lk_tracked,
                   lk_worker, lk_request, lk_unlocked>>
    /\ UNCHANGED lock_frame

\* line 49
LkCleanupSetEvent ==
    /\ TopPc = "set_event"
    /\ lk_event' = TRUE
    /\ lk_main' = WithTopPc("acquire")
    /\ UNCHANGED <<job_lock, lk_stored, lk_job, lk_tracked, lk_worker,
                   lk_request, lk_unlocked>>
    /\ UNCHANGED lock_frame

\* line 51: `with self.job_lock:` entered. threading.Lock is not reentrant:
\* the call waits as long as any thread, its own included, owns the lock.
LkCleanupAcquire ==
    /\ TopPc = "acquire"
    /\ job_lock = "none"
    /\ job_lock' = "main"
    /\ lk_main' = WithTopPc("locked")
    /\ UNCHANGED <<lk_stored, lk_job, lk_event, lk_tracked, lk_worker,
                   lk_request, lk_unlocked>>
    /\ UNCHANGED lock_frame

\* lines 52-60, and the lock released
LkCleanupCancelAll ==
    /\ TopPc = "locked"
    /\ job_lock = "main"
    /\ IF lk_stored
       THEN /\ lk_job' = CancelledByShutdown(lk_job)
            /\ lk_unlocked' = Logged("main",
                  Acc("_cleanup_on_exit", "read", {"status"})
                  \cup (IF lk_job.status \in {"pending", "running"}
                        THEN Acc("_cleanup_on_exit", "write", {"status"})
                        ELSE {}))
       ELSE UNCHANGED <<lk_job, lk_unlocked>>
    /\ lk_stored' = FALSE
    /\ job_lock' = "none"
    /\ lk_main' = WithTopPc("threads")
    /\ UNCHANGED <<lk_event, lk_tracked, lk_worker, lk_request>>
    /\ UNCHANGED lock_frame

\* line 63
LkCleanupCheckThreads ==
    /\ TopPc = "threads"
    /\ lk_main' = WithTopPc(IF lk_tracked THEN "join" ELSE "return")
    /\ UNCHANGED <<job_lock, lk_stored, lk_job, lk_event, lk_tracked,
                   lk_worker, lk_request, lk_unlocked>>
    /\ UNCHANGED lock_frame

\* lines 65-72: thread.join(timeout=5.0) returns, the thread ended or not
LkCleanupJoin ==
    /\ TopPc = "join"
    /\ lk_tracked' = FALSE
    /\ lk_main' = WithTopPc("return")
    /\ UNCHANGED <<job_lock, lk_stored, lk_job, lk_event, lk_worker,
                   lk_request, lk_unlocked>>
    /\ UNCHANGED lock_frame

\* _cleanup_on_exit returns to its caller. An atexit callback and
\* _signal_handler (line 41) return in turn; signal_handler of app.py goes on
\* to sys.exit(0) (line 1843): SystemExit unwinds whatever the signal
\* interrupted, a with statement it passes releases the lock, and the
\* interpreter turns to its atexit callbacks.
LkCleanupReturn ==
    /\ TopPc = "return"
    /\ IF TopFrame.via = "signal" /\ lk_main.handler = "signal_handler"
       THEN /\ lk_main' = [lk_main EXCEPT
                  !.stack = <<>>,
                  !.phase = "exiting",
                  !.hooks = IF lk_main.phase = "serving" THEN ExitHooks ELSE @]
            /\ job_lock' = IF job_lock = "main" THEN "none" ELSE job_lock
       ELSE /\ lk_main' = [lk_main EXCEPT
                  !.stack = SubSeq(@, 1, Len(@) - 1)]
            /\ UNCHANGED job_lock
    /\ UNCHANGED <<lk_stored, lk_job, lk_event, lk_tracked, lk_worker,
                   lk_request, lk_unlocked>>
    /\ UNCHANGED lock_frame

LockWorker ==
    \/ WorkerAcquire
    \/ LkWorkerStart
    \/ LkLoopTop
    \/ LkMarkCancelled
    \/ LkCheckCancelled
    \/ LkExtract
    \/ LkExtractFailed
    \/ LkPost
    \/ LkUpdateProgress
    \/ LkReadCompleted
    \/ LkWaitCheck
    \/ LkSleepSlice
    \/ LkItemException
    \/ LkSetException
    \/ LkFinishJob
    \/ LkWorkerFinally

LockRequest ==
    \/ RequestCall
    \/ RequestAcquire
    \/ LkCancelJob
    \/ LkReadJobs

LockMain ==
    \/ SignalArrives
    \/ ServerStops
    \/ AtExitCallback
    \/ LkCleanupSetEvent
    \/ LkCleanupAcquire
    \/ LkCleanupCancelAll
    \/ LkCleanupCheckThreads
    \/ LkCleanupJoin
    \/ LkCleanupReturn

LockNext == LockWorker \/ LockRequest \/ LockMain

LockSpec == LockInit /\ [][LockNext]_vars

\* C25: every read and every write of the job's mutable fields by the
\* worker, cancel_job, get_job_status, get_all_jobs and _cleanup_on_exit is
\* made by a thread that owns job_lock.
C25_AccessOnlyUnderLock == lk_unlocked = {}

\* C26: no thread owns job_lock while it fetches a Discord message, posts to
\* the webhook, sleeps a slice or joins a thread.
C26_NoLockDuringIO ==
    /\ WorkerInIO => job_lock # "worker"
    /\ TopPc = "join" => job_lock # "main"

\* C26's case: the worker is in a sleep slice and _cleanup_on_exit is
\* joining it, while cancel_job on the request thread owns job_lock.
C26_Witness ==
    /\ lk_worker.pc = "sleep"
    /\ TopPc = "join"
    /\ job_lock = "request"
    /\ lk_request = "cancel_job"

\* C28: _cleanup_on_exit never waits for job_lock while its own thread owns
\* the lock, so it never blocks forever on it.
C28_CleanupNeverWaitsOnOwnLock ==
    ~(TopPc = "acquire" /\ job_lock = "main")
====
